---- MODULE Spec2Model ----
(***************************************************************************)
(* A state-machine model of the audio core of Eduaccess:                   *)
(*   - Gemini3ContinuousSession (src/services/geminiService.ts:116-249),   *)
(*     the capture segmenter and transcription dispatcher;                 *)
(*   - LiveAudioSession (src/services/geminiService.ts:252-498), the       *)
(*     playback scheduler of the live session;                             *)
(*   - the speech service (src/services/speechService.ts), with its cache, *)
(*     its circuit breaker and its fallback voice.                         *)
(* Time is in milliseconds, audio lengths are in samples.  A captured      *)
(* frame is identified by the ordinal of the capture callback that         *)
(* delivered it; every frame holds FrameSize samples.                      *)
(***************************************************************************)
EXTENDS Integers, Sequences, FiniteSets, TLC

(***************************************************************************)
(* Program constants                                                       *)
(***************************************************************************)
FrameSize == 4096
RequestedRate == 16000
DefaultRate == 16000
SilentBelow == 5
SilenceMs == 3000
CeilingSec == 4
FloorTenths == 8
PauseMs == 400
MAX_CACHE_SIZE == 20
ShortBelow == 30
CacheBelow == 100

(* The wall-clock time one frame of audio takes at the requested rate.     *)
FramePeriodMs == (FrameSize * 1000) \div RequestedRate

(* "No transcription generated." (transcribeAudio's value for a response   *)
(* without text), as a sequence of characters.                             *)
Sentinel ==
  << "N","o"," ","t","r","a","n","s","c","r","i","p","t","i","o","n"," ",
     "g","e","n","e","r","a","t","e","d","." >>

(***************************************************************************)
(* Bounds of the model                                                     *)
(***************************************************************************)
MaxFrames == 9
MaxScript == 34
MaxPause == 3
MaxChunks == 2
MaxClock == 3
MaxLiveConnects == 1
MaxConnects == 2
MaxSpeaks == 3
MaxFill == 23
MaxHits == 1
MaxRepeats == 1
MaxOverlap == 2
MaxErrors == 2
MaxLiveFrames == 2
MaxQuietFrames == 5
MaxSamples == 3
MaxPending == 17
MaxSegments == 2

(* Volume metrics of a frame (rms * 400): just below and at the speaking   *)
(* threshold.                                                              *)
RmsLevels == {4, 5}
(* Wall-clock delays between two capture callbacks: the nominal cadence.   *)
Delays == {FramePeriodMs}
(* Texts the transcription service can answer with; <<>> stands for a      *)
(* response whose text is missing or empty (both are falsy).               *)
(* Durations of decoded audio buffers, in ticks of the output clock. *)
Durations == {1, 2}
Responses ==
  { <<>>, <<" ", "\n">>, <<"h", "i">>, Sentinel }

VARIABLES
  (* Gemini3ContinuousSession: fields *)
  isConnected, buffer, bufferLength, isProcessing,
  audioContext,      \* 0 = null, else the context's sample rate
  mediaStream,       \* TRUE = a live microphone stream is held
  inputProcessor,    \* TRUE = a script processor node is held
  (* Gemini3ContinuousSession: closures and pending asynchronous steps *)
  pc,                \* position of connect(): "idle" or "getUserMedia"
  handler,           \* TRUE = an onaudioprocess callback has been registered
  silenceStart,      \* the callback closure's silenceStart
  inflight,          \* segments of the transcribeAudio calls not yet settled
  now,               \* Date.now()
  (* Gemini3ContinuousSession: observations *)
  nFrames,           \* capture callbacks so far (the next frame is nFrames+1)
  nConnects,         \* connect() calls so far
  delivered,         \* frames delivered to the callback while connected
  dispatched,        \* segments handed to transcribeAudio, in dispatch order
  tornDown,          \* frames that were pending when disconnect() ran
  transcripts,       \* texts onTranscript was invoked with
  filtered,          \* results of transcribeAudio that were not surfaced
  failed,            \* segments whose transcribeAudio call rejected
  nOnError,          \* invocations of onError
  nOnVolume,         \* invocations of onVolume
  lastSpeech,        \* time of the last frame with speaking-level volume
  fed,               \* volume metrics of the frames a scripted feed delivered
  (* LiveAudioSession: fields *)
  liveIsConnected,   \* isConnected
  liveAudioContext,  \* TRUE = audioContext is not null
  outputAudioContext,\* TRUE = outputAudioContext is not null
  liveMediaStream,   \* TRUE = mediaStream is not null
  liveInputProcessor,\* TRUE = inputProcessor is not null
  session,           \* TRUE = session is not null
  nextStartTime,
  sources,           \* the scheduled source nodes: [id, start, end]
  (* LiveAudioSession: pending asynchronous steps and environment *)
  livePc,            \* position of connect(): "idle", "getUserMedia", "sessionPromise"
  socket,            \* the live connection: "none", "opening", "failing", "open", "closed"
  currentTime,       \* outputAudioContext.currentTime, in ticks
  decoding,          \* chunks whose decodeAudioData has not settled: [id, dur]
  (* LiveAudioSession: observations *)
  nChunks,           \* messages with an audio chunk so far
  nLiveConnects,     \* connect() calls so far
  liveOnError,       \* invocations of onError
  slots,             \* buffers scheduled since the last stopAudioOutput, in
                     \* scheduling order: [id, start, end, at]
  discardedEnd,      \* nextStartTime as the last stopAudioOutput that stopped
                     \* a source found it
  (* LiveAudioSession: capture *)
  lastSpeechTime, silenceTriggered,
  liveRate,          \* the sample rate the browser gave the input context
  liveNow,           \* Date.now()
  liveHandler,       \* 0 = no onaudioprocess callback registered, else the
                     \* connect() whose session promise the callback holds
  pendingSends,      \* frames waiting for the session promise: [frame, rate, resampled]
  nLiveFrames,       \* capture callbacks so far
  quietSince,        \* time of onopen or of the last speaking-level frame
  signalled,         \* TRUE = onSilence was invoked since quietSince
  liveDid            \* the step just taken, when it was a capture callback,
                     \* the resolution of the session promise, a failed
                     \* decoding or a disconnect()

VARIABLES
  (* speechService: module state *)
  audioCtx,          \* TRUE = the shared audio context has been created
  currentSource,     \* 0 = null, else the source node of the call of that id
  audioCache,        \* the Map in insertion order: [key, buf]
  isQuotaExhausted,  \* the circuit breaker
  (* speechService: environment and pending asynchronous steps *)
  speechPlaying,     \* source nodes started and neither stopped nor ended
  synth,             \* the queue of window.speechSynthesis; its head speaks
  voicesLoaded,      \* TRUE = getVoices() returns voices
  onvoiceschanged,   \* 0 = null, else the utterance the handler would speak
  timers,            \* utterances whose 300 ms safety timeout is pending
  speechCalls,       \* speak() calls suspended at an await: [id, text, stage]
  (* speechService: observations *)
  nSpeaks,           \* speak() calls so far
  did,               \* the step just taken: what it was given
  script,            \* a scripted run: the distinct texts, cache hits and
                     \* repeated texts spoken so far
  (* audioUtils: a call of one of its functions *)
  audio,             \* the arguments of the call and, once applied, its value
  (* LiveAudioSession: an observation kept by the runs with interruptions *)
  barge              \* chunks received when the last interruption was handled

g3Vars ==
  << isConnected, buffer, bufferLength, isProcessing, audioContext, mediaStream,
     inputProcessor, pc, handler, silenceStart, inflight, now, nFrames, nConnects,
     delivered, dispatched, tornDown, transcripts, filtered, failed, nOnError,
     nOnVolume, lastSpeech >>

liveVars ==
  << liveIsConnected, liveAudioContext, outputAudioContext, liveMediaStream,
     liveInputProcessor, session, nextStartTime, sources, livePc, socket,
     currentTime, decoding, nChunks, nLiveConnects, liveOnError, slots, discardedEnd,
     lastSpeechTime, silenceTriggered, liveRate, liveNow, liveHandler, pendingSends,
     nLiveFrames, quietSince, signalled, liveDid >>

(* The capture state of a LiveAudioSession. *)
liveCapture ==
  << lastSpeechTime, silenceTriggered, liveRate, liveNow, liveHandler, pendingSends,
     nLiveFrames, quietSince, signalled >>

speechVars ==
  << audioCtx, currentSource, audioCache, isQuotaExhausted, speechPlaying, synth,
     voicesLoaded, onvoiceschanged, timers, speechCalls, nSpeaks, did >>

vars == << g3Vars, fed, liveVars, speechVars, script, audio, barge >>

(***************************************************************************)
(* Helpers                                                                 *)
(***************************************************************************)
Min(a, b) == IF a < b THEN a ELSE b
Max(a, b) == IF a > b THEN a ELSE b

RECURSIVE Flatten(_)
Flatten(ss) == IF ss = <<>> THEN <<>> ELSE Head(ss) \o Flatten(Tail(ss))

Elems(s) == { s[i] : i \in 1..Len(s) }

RemoveAt(s, i) == SubSeq(s, 1, i - 1) \o SubSeq(s, i + 1, Len(s))

IsWhitespace(c) == c \in {" ", "\n", "\t"}

(* String.prototype.trim *)
RECURSIVE TrimLeft(_)
TrimLeft(s) ==
  IF s # <<>> /\ IsWhitespace(Head(s)) THEN TrimLeft(Tail(s)) ELSE s

RECURSIVE TrimRight(_)
TrimRight(s) ==
  IF s # <<>> /\ IsWhitespace(s[Len(s)]) THEN TrimRight(SubSeq(s, 1, Len(s) - 1)) ELSE s

Trim(s) == TrimRight(TrimLeft(s))

(* transcribeAudio's return value: response.text || "No transcription generated." *)
TranscribeResult(responseText) ==
  IF responseText = <<>> THEN Sentinel ELSE responseText

(* Variant: the filter does not know the sentinel. *)
SurfacedUnlessBlank(text) ==
  text # <<>> /\ Len(Trim(text)) > 0

(* processBuffer's filter before onTranscript *)
Surfaced(text) ==
  text # <<>> /\ Len(Trim(text)) > 0 /\ text # Sentinel

(* this.audioContext?.sampleRate || 16000 *)
SampleRateOf(ctx) == IF ctx # 0 THEN ctx ELSE DefaultRate

(* if (!this.isConnected) return;  -- whether the callback goes on. *)
CallbackRuns(connected) == connected

(* const isSilent = rms < 5 *)
IsSilent(rms) == rms < SilentBelow

(* this.buffer.push(copy) *)
PushFrame(buf, frame) == Append(buf, frame)

(* Variant: the trigger does not look at the in-flight marker. *)
FlushTriggerUnguarded(processing, len, rate, silenceDuration) ==
  \/ len > CeilingSec * rate
  \/ len * 10 > FloorTenths * rate /\ silenceDuration > PauseMs

(* Variant: the trigger has no forced flush. *)
FlushTriggerNoCeiling(processing, len, rate, silenceDuration) ==
  /\ ~processing
  /\ len * 10 > FloorTenths * rate /\ silenceDuration > PauseMs

(* Variant: the natural flush does not wait for a pause. *)
FlushTriggerNoPause(processing, len, rate, silenceDuration) ==
  /\ ~processing
  /\ \/ len > CeilingSec * rate
     \/ len * 10 > FloorTenths * rate

(* The flush trigger of the capture callback.  duration = len / rate is    *)
(* compared without division: duration > 4 and duration > 0.8.             *)
FlushTrigger(processing, len, rate, silenceDuration) ==
  /\ ~processing
  /\ \/ len > CeilingSec * rate
     \/ len * 10 > FloorTenths * rate /\ silenceDuration > PauseMs

(* Variant: the pending buffer is not reset after the swap. *)
BufferKeptAfterSwap(currentBuffer) == currentBuffer

(* processBuffer: this.buffer = [] after currentBuffer took the frames. *)
BufferAfterSwap(currentBuffer) == <<>>

(* Variant: the in-flight marker is not released. *)
ProcessingNeverReleased == TRUE

(* processBuffer: the finally block's this.isProcessing = false. *)
ProcessingAfterSettle == FALSE

(* processBuffer: the catch block only logs; the pending buffer after a    *)
(* failed call is the pending buffer before it.                            *)
BufferAfterFailure(buf, segment) == buf

(***************************************************************************)
(* Gemini3ContinuousSession                                                *)
(***************************************************************************)
G3Init ==
  /\ isConnected = FALSE
  /\ buffer = <<>>
  /\ bufferLength = 0
  /\ isProcessing = FALSE
  /\ audioContext = 0
  /\ mediaStream = FALSE
  /\ inputProcessor = FALSE
  /\ pc = "idle"
  /\ handler = FALSE
  /\ silenceStart = 0
  /\ inflight = <<>>
  /\ now = 0
  /\ nFrames = 0
  /\ nConnects = 0
  /\ delivered = <<>>
  /\ dispatched = <<>>
  /\ tornDown = {}
  /\ transcripts = {}
  /\ filtered = {}
  /\ failed = {}
  /\ nOnError = 0
  /\ nOnVolume = 0
  /\ lastSpeech = 0

g3Settled == << transcripts, filtered, failed >>
g3Capture == << nFrames, delivered, dispatched, nOnVolume, lastSpeech >>

(* The catch block of connect() calls the owner's error callback: the      *)
(* count of its invocations after the call.  The variant leaves it out.    *)
ErrorSwallowed(n) == n
ErrorReported(n) == n + 1

(* The body of disconnect(): the fields it assigns.  bufferLength is not   *)
(* among them.                                                             *)
DisconnectBody ==
  /\ isConnected' = FALSE
  /\ buffer' = <<>>
  /\ mediaStream' = FALSE
  /\ inputProcessor' = FALSE
  /\ audioContext' = 0
  /\ tornDown' = tornDown \cup Elems(buffer)

(* connect(), up to its await of getUserMedia.  The owner calls it on a    *)
(* session that is not connected and has no connect() pending; connect()   *)
(* itself tests neither.                                                   *)
ConnectBegin ==
  /\ pc = "idle"
  /\ ~isConnected
  /\ nConnects < MaxConnects
  /\ isConnected' = TRUE
  /\ audioContext' = RequestedRate
  /\ pc' = "getUserMedia"
  /\ nConnects' = nConnects + 1
  /\ UNCHANGED << buffer, bufferLength, isProcessing, mediaStream, inputProcessor,
                  handler, silenceStart, inflight, now, tornDown, nOnError,
                  g3Settled, g3Capture >>

(* getUserMedia resolves.  With the audio context gone (disconnect() ran   *)
(* during the await) createMediaStreamSource throws and the catch block    *)
(* runs; otherwise the capture callback is registered.                     *)
GetUserMediaOk ==
  /\ pc = "getUserMedia"
  /\ pc' = "idle"
  /\ IF audioContext = 0
       THEN /\ DisconnectBody
            /\ nOnError' = nOnError + 1
            /\ UNCHANGED << handler, silenceStart, lastSpeech >>
       ELSE /\ mediaStream' = TRUE
            /\ inputProcessor' = TRUE
            /\ handler' = TRUE
            /\ silenceStart' = now
            /\ lastSpeech' = now
            /\ UNCHANGED << isConnected, buffer, audioContext, tornDown, nOnError >>
  /\ UNCHANGED << bufferLength, isProcessing, inflight, now, nConnects, g3Settled,
                  nFrames, delivered, dispatched, nOnVolume >>

(* getUserMedia rejects: the catch block of connect(). *)
GetUserMediaFail ==
  /\ pc = "getUserMedia"
  /\ pc' = "idle"
  /\ DisconnectBody
  /\ nOnError' = ErrorReported(nOnError)
  /\ UNCHANGED << bufferLength, isProcessing, handler, silenceStart, inflight, now,
                  nConnects, g3Settled, g3Capture >>

(* disconnect(), called by the owner of the session. *)
Disconnect ==
  /\ DisconnectBody
  /\ UNCHANGED << bufferLength, isProcessing, pc, handler, silenceStart, inflight,
                  now, nConnects, nOnError, g3Settled, g3Capture >>

(* One invocation of the onaudioprocess callback, dt ms after the previous *)
(* step, with a frame whose volume metric is rms; the synchronous part of  *)
(* processBuffer (up to its await of transcribeAudio) runs inside it.      *)
OnAudioProcess(rms, dt) ==
  /\ handler
  /\ now' = now + dt
  /\ nFrames' = nFrames + 1
  /\ IF ~CallbackRuns(isConnected)
       THEN UNCHANGED << buffer, bufferLength, isProcessing, silenceStart,
                         inflight, delivered, dispatched, nOnVolume, lastSpeech >>
       ELSE LET frame == nFrames + 1
                pending == PushFrame(buffer, frame)
                pendingLength == bufferLength + FrameSize
                start == IF IsSilent(rms) THEN silenceStart ELSE now'
                flush == FlushTrigger(isProcessing, pendingLength,
                                      SampleRateOf(audioContext), now' - start)
            IN  /\ nOnVolume' = nOnVolume + 1
                /\ delivered' = Append(delivered, frame)
                /\ silenceStart' = start
                /\ lastSpeech' = IF rms >= SilentBelow THEN now' ELSE lastSpeech
                /\ IF flush /\ pending # <<>>
                     THEN /\ isProcessing' = TRUE
                          /\ buffer' = BufferAfterSwap(pending)
                          /\ bufferLength' = 0
                          /\ inflight' = Append(inflight, pending)
                          /\ dispatched' = Append(dispatched, pending)
                     ELSE /\ buffer' = pending
                          /\ bufferLength' = pendingLength
                          /\ UNCHANGED << isProcessing, inflight, dispatched >>
  /\ UNCHANGED << isConnected, audioContext, mediaStream, inputProcessor, pc,
                  handler, nConnects, tornDown, nOnError, g3Settled >>

(* transcribeAudio resolves for the i-th call in flight: the rest of the   *)
(* try block of processBuffer, then its finally block.                     *)
TranscribeOk(i, responseText) ==
  /\ i \in 1..Len(inflight)
  /\ LET text == TranscribeResult(responseText)
     IN  IF Surfaced(text)
           THEN transcripts' = transcripts \cup {text} /\ filtered' = filtered
           ELSE filtered' = filtered \cup {text} /\ transcripts' = transcripts
  /\ isProcessing' = ProcessingAfterSettle
  /\ inflight' = RemoveAt(inflight, i)
  /\ UNCHANGED << isConnected, buffer, bufferLength, audioContext, mediaStream,
                  inputProcessor, pc, handler, silenceStart, now, nConnects,
                  tornDown, nOnError, failed, g3Capture >>

(* transcribeAudio rejects for the i-th call in flight: the catch block of *)
(* processBuffer, then its finally block.                                  *)
TranscribeFail(i) ==
  /\ i \in 1..Len(inflight)
  /\ isProcessing' = ProcessingAfterSettle
  /\ inflight' = RemoveAt(inflight, i)
  /\ buffer' = BufferAfterFailure(buffer, inflight[i])
  /\ failed' = failed \cup {inflight[i]}
  /\ UNCHANGED << isConnected, bufferLength, audioContext, mediaStream,
                  inputProcessor, pc, handler, silenceStart, now, nConnects,
                  tornDown, nOnError, transcripts, filtered, g3Capture >>

(***************************************************************************)
(* LiveAudioSession                                                        *)
(***************************************************************************)
(* What a step is recorded with: the operation, the phase of the session   *)
(* a disconnect() was called in, the frame a capture callback was given,   *)
(* the frames the step sent to the live connection, and whether it invoked *)
(* onSilence.                                                              *)
LiveDid(op, phase, frame, sent, silence) ==
  [op |-> op, phase |-> phase, frame |-> frame, sent |-> sent, silence |-> silence]

LiveOther == LiveDid("other", "", 0, <<>>, FALSE)

(* The phase of the session's life: never connected, connecting,           *)
(* connected, or closed.                                                   *)
LivePhase ==
  IF liveIsConnected THEN "connected"
  ELSE IF livePc # "idle" THEN "connecting"
  ELSE IF nLiveConnects = 0 THEN "never"
  ELSE "closed"

LiveInit ==
  /\ liveIsConnected = FALSE
  /\ liveAudioContext = FALSE
  /\ outputAudioContext = FALSE
  /\ liveMediaStream = FALSE
  /\ liveInputProcessor = FALSE
  /\ session = FALSE
  /\ nextStartTime = 0
  /\ sources = {}
  /\ livePc = "idle"
  /\ socket = "none"
  /\ currentTime = 0
  /\ decoding = {}
  /\ nChunks = 0
  /\ nLiveConnects = 0
  /\ liveOnError = 0
  /\ slots = <<>>
  /\ discardedEnd = 0
  /\ lastSpeechTime = 0
  /\ silenceTriggered = FALSE
  /\ liveRate = 0
  /\ liveNow = 0
  /\ liveHandler = 0
  /\ pendingSends = <<>>
  /\ nLiveFrames = 0
  /\ quietSince = 0
  /\ signalled = FALSE
  /\ liveDid = LiveOther

(* Variant: the start ignores the output clock. *)
SlotStartIgnoringClock(clock, next) == next

(* playAudioChunk: Math.max(this.outputAudioContext.currentTime, this.nextStartTime) *)
SlotStart(clock, next) == Max(clock, next)

(* playAudioChunk: this.nextStartTime += audioBuffer.duration *)
NextStartAfter(start, duration) == start + duration

(* Variant: stopAudioOutput leaves the scheduling clock alone. *)
ClockKeptAfterStop == nextStartTime

(* stopAudioOutput: this.nextStartTime = 0 *)
ClockAfterStop == 0

(* startAudioInput: if (rms > 5), the threshold for "speaking". *)
IsSpeaking(rms) == rms > SilentBelow

(* Variant: the watchdog never lapses. *)
SilenceNeverLapses(time, last) == FALSE

(* startAudioInput: Date.now() - this.lastSpeechTime > 3000 *)
SilenceLapsed(time, last) == time - last > SilenceMs

(* Variant: the signal does not latch. *)
TriggeredNotLatched == FALSE

(* startAudioInput: this.silenceTriggered = true, before onSilence(). *)
TriggeredAfterSignal == TRUE

(* this.audioContext?.sampleRate || 16000 *)
LiveRateOf(ctx, rate) == IF ctx /\ rate # 0 THEN rate ELSE DefaultRate

(* Variant: every frame is resampled. *)
ResamplesAlways(currentRate) == TRUE

(* startAudioInput: if (currentRate !== 16000) *)
Resamples(currentRate) == currentRate # RequestedRate

(* Variant: the continuation sends whatever the state of the session. *)
SendsUnguarded(connected) == TRUE

(* startAudioInput, the continuation on the session promise:              *)
(* if (!this.isConnected) return;  -- whether it goes on to send.          *)
SendsWhen(connected) == connected

(* Variant: teardown leaves the microphone stream. *)
StreamKeptAfterDisconnect == liveMediaStream

(* disconnect: this.mediaStream = null, its tracks stopped. *)
StreamAfterDisconnect == FALSE

(* stopAudioOutput(): every source stopped, the set cleared, the           *)
(* scheduling clock reset.                                                 *)
StopAudioOutput ==
  /\ sources' = {}
  /\ nextStartTime' = ClockAfterStop
  /\ slots' = <<>>
  /\ discardedEnd' = IF sources # {} THEN nextStartTime ELSE discardedEnd

(* The fields LiveAudioSession.disconnect() assigns. *)
LiveDisconnectBody ==
  /\ liveIsConnected' = FALSE
  /\ StopAudioOutput
  /\ session' = FALSE
  /\ liveInputProcessor' = FALSE
  /\ liveMediaStream' = StreamAfterDisconnect
  /\ liveAudioContext' = FALSE
  /\ outputAudioContext' = FALSE

(* connect(), up to its await of getUserMedia (both contexts running); the *)
(* browser gives the input context the sample rate rate.  The owner calls  *)
(* it on a session with no connect() pending and no connection open.       *)
LiveConnectBegin(rate) ==
  /\ livePc = "idle"
  /\ socket \in {"none", "closed"}
  /\ nLiveConnects < MaxLiveConnects
  /\ nLiveConnects' = nLiveConnects + 1
  /\ liveIsConnected' = FALSE
  /\ lastSpeechTime' = liveNow
  /\ silenceTriggered' = FALSE
  /\ liveAudioContext' = TRUE
  /\ liveRate' = rate
  /\ outputAudioContext' = TRUE
  /\ currentTime' = 0
  /\ livePc' = "getUserMedia"
  /\ liveDid' = LiveOther
  /\ UNCHANGED << liveMediaStream, liveInputProcessor, session, nextStartTime,
                  sources, socket, decoding, nChunks, liveOnError, slots, discardedEnd,
                  liveNow, liveHandler, pendingSends, nLiveFrames, quietSince,
                  signalled >>

(* getUserMedia resolves: the stream is kept and ai.live.connect is called. *)
LiveGetUserMediaOk ==
  /\ livePc = "getUserMedia"
  /\ liveMediaStream' = TRUE
  /\ socket' = "opening"
  /\ livePc' = "sessionPromise"
  /\ liveDid' = LiveOther
  /\ UNCHANGED << liveIsConnected, liveAudioContext, outputAudioContext,
                  liveInputProcessor, session, nextStartTime, sources, currentTime,
                  decoding, nChunks, nLiveConnects, liveOnError, slots, discardedEnd,
                  liveCapture >>

(* getUserMedia rejects, or the session promise rejects before the         *)
(* connection opened: the catch block of connect().  The continuations     *)
(* waiting for the session promise never run.                              *)
LiveConnectFail ==
  /\ \/ livePc = "getUserMedia"
     \/ livePc = "sessionPromise" /\ socket \in {"opening", "failing"}
  /\ livePc' = "idle"
  /\ socket' = IF socket \in {"opening", "failing"} THEN "closed" ELSE socket
  /\ liveOnError' = ErrorReported(liveOnError)
  /\ LiveDisconnectBody
  /\ pendingSends' = <<>>
  /\ liveDid' = LiveOther
  /\ UNCHANGED << currentTime, decoding, nChunks, nLiveConnects, lastSpeechTime,
                  silenceTriggered, liveRate, liveNow, liveHandler, nLiveFrames,
                  quietSince, signalled >>

(* onopen: the connection opened; startAudioInput() creates the input      *)
(* processor and registers the capture callback when the input context and *)
(* the stream are held.                                                    *)
OnOpen ==
  /\ socket = "opening"
  /\ socket' = "open"
  /\ liveIsConnected' = TRUE
  /\ liveInputProcessor' =
       IF liveAudioContext /\ liveMediaStream THEN TRUE ELSE liveInputProcessor
  /\ liveHandler' =
       IF liveAudioContext /\ liveMediaStream THEN nLiveConnects ELSE liveHandler
  /\ quietSince' = liveNow
  /\ signalled' = FALSE
  /\ liveDid' = LiveOther
  /\ UNCHANGED << liveAudioContext, outputAudioContext, liveMediaStream, session,
                  nextStartTime, sources, livePc, currentTime, decoding, nChunks,
                  nLiveConnects, liveOnError, slots, discardedEnd, lastSpeechTime,
                  silenceTriggered, liveRate, liveNow, pendingSends, nLiveFrames >>

(* The session promise resolves: this.session = await sessionPromise, then *)
(* the continuations the capture callbacks left on the promise, in order.  *)
SessionResolved ==
  /\ livePc = "sessionPromise"
  /\ socket \in {"open", "closed"}
  /\ session' = TRUE
  /\ livePc' = "idle"
  /\ pendingSends' = <<>>
  /\ liveDid' = LiveDid("sessionPromise", "", 0,
                        IF SendsWhen(liveIsConnected) THEN pendingSends ELSE <<>>,
                        FALSE)
  /\ UNCHANGED << liveIsConnected, liveAudioContext, outputAudioContext,
                  liveMediaStream, liveInputProcessor, nextStartTime, sources,
                  socket, currentTime, decoding, nChunks, nLiveConnects,
                  liveOnError, slots, discardedEnd, lastSpeechTime,
                  silenceTriggered, liveRate, liveNow, liveHandler, nLiveFrames,
                  quietSince, signalled >>

(* One invocation of the onaudioprocess callback of startAudioInput, dt ms *)
(* after the previous step, with a frame whose volume metric is rms.  The  *)
(* continuation it leaves on the session promise runs at once when the     *)
(* promise has resolved, before any other callback.                        *)
LiveOnAudioProcess(rms, dt) ==
  /\ liveHandler # 0
  /\ liveNow' = liveNow + dt
  /\ nLiveFrames' = nLiveFrames + 1
  /\ IF ~CallbackRuns(liveIsConnected)
       THEN /\ liveDid' = LiveDid("dropped", "", nLiveFrames + 1, <<>>, FALSE)
            /\ UNCHANGED << lastSpeechTime, silenceTriggered, pendingSends,
                            quietSince, signalled >>
       ELSE LET currentRate == LiveRateOf(liveAudioContext, liveRate)
                entry == [frame |-> nLiveFrames + 1, rate |-> currentRate,
                          resampled |-> Resamples(currentRate)]
                resolved == liveHandler # nLiveConnects \/ livePc # "sessionPromise"
                lapses == /\ ~IsSpeaking(rms)
                          /\ ~silenceTriggered
                          /\ SilenceLapsed(liveNow', lastSpeechTime)
            IN  /\ lastSpeechTime' = IF IsSpeaking(rms) THEN liveNow' ELSE lastSpeechTime
                /\ silenceTriggered' =
                     IF IsSpeaking(rms) THEN FALSE
                     ELSE IF lapses THEN TriggeredAfterSignal
                     ELSE silenceTriggered
                /\ quietSince' = IF IsSpeaking(rms) THEN liveNow' ELSE quietSince
                /\ signalled' = IF IsSpeaking(rms) THEN FALSE ELSE signalled \/ lapses
                /\ pendingSends' = IF resolved THEN pendingSends
                                   ELSE Append(pendingSends, entry)
                /\ liveDid' = LiveDid("onaudioprocess", "", nLiveFrames + 1,
                                      IF resolved /\ SendsWhen(liveIsConnected)
                                        THEN << entry >> ELSE <<>>,
                                      lapses)
  /\ UNCHANGED << liveIsConnected, liveAudioContext, outputAudioContext,
                  liveMediaStream, liveInputProcessor, session, nextStartTime,
                  sources, livePc, socket, currentTime, decoding, nChunks,
                  nLiveConnects, liveOnError, slots, discardedEnd, liveRate,
                  liveHandler >>

(* onmessage: an audio chunk of duration dur starts playAudioChunk (up to  *)
(* its await of decodeAudioData) when the output context is held; then an  *)
(* interruption flag runs stopAudioOutput().                               *)
OnMessage(hasAudio, dur, interrupted) ==
  /\ socket = "open"
  /\ hasAudio \/ interrupted
  /\ nChunks < MaxChunks
  /\ nChunks' = IF hasAudio THEN nChunks + 1 ELSE nChunks
  /\ decoding' = IF hasAudio /\ outputAudioContext
                   THEN decoding \cup {[id |-> nChunks + 1, dur |-> dur]}
                   ELSE decoding
  /\ IF interrupted
       THEN StopAudioOutput
       ELSE UNCHANGED << sources, nextStartTime, slots, discardedEnd >>
  /\ liveDid' = LiveOther
  /\ UNCHANGED << liveIsConnected, liveAudioContext, outputAudioContext,
                  liveMediaStream, liveInputProcessor, session, livePc, socket,
                  currentTime, nLiveConnects, liveOnError, liveCapture >>

(* decodeAudioData resolved for chunk c: the rest of playAudioChunk.  With *)
(* the output context gone createBufferSource throws and the catch block   *)
(* drops the chunk.                                                        *)
DecodeDone(c) ==
  /\ c \in decoding
  /\ decoding' = decoding \ {c}
  /\ IF ~outputAudioContext
       THEN UNCHANGED << nextStartTime, sources, slots, discardedEnd >>
       ELSE LET start == SlotStart(currentTime, nextStartTime)
                end == NextStartAfter(start, c.dur)
            IN  /\ nextStartTime' = end
                /\ sources' = sources \cup {[id |-> c.id, start |-> start, end |-> end]}
                /\ slots' = Append(slots, [id |-> c.id, start |-> start,
                                           end |-> end, at |-> currentTime])
                /\ UNCHANGED discardedEnd
  /\ liveDid' = LiveOther
  /\ UNCHANGED << liveIsConnected, liveAudioContext, outputAudioContext,
                  liveMediaStream, liveInputProcessor, session, livePc, socket,
                  currentTime, nChunks, nLiveConnects, liveOnError, liveCapture >>

(* Variant: a failed decode resets the scheduling clock. *)
ClockResetAfterDecodeError(next) == 0

(* playAudioChunk's catch block logs the error: the scheduling clock stays. *)
ClockAfterDecodeError(next) == next

(* decodeAudioData rejected for chunk c: the catch block of playAudioChunk. *)
DecodeFail(c) ==
  /\ c \in decoding
  /\ decoding' = decoding \ {c}
  /\ nextStartTime' = ClockAfterDecodeError(nextStartTime)
  /\ liveDid' = LiveDid("decodeFailed", "", c.id, <<>>, FALSE)
  /\ UNCHANGED << liveIsConnected, liveAudioContext, outputAudioContext,
                  liveMediaStream, liveInputProcessor, session,
                  sources, livePc, socket, currentTime, nChunks, nLiveConnects,
                  liveOnError, slots, discardedEnd, liveCapture >>

(* The 'ended' listener of a source whose buffer has played to its end. *)
SourceEnded(src) ==
  /\ src \in sources
  /\ outputAudioContext
  /\ src.end <= currentTime
  /\ sources' = sources \ {src}
  /\ liveDid' = LiveOther
  /\ UNCHANGED << liveIsConnected, liveAudioContext, outputAudioContext,
                  liveMediaStream, liveInputProcessor, session, nextStartTime,
                  livePc, socket, currentTime, decoding, nChunks, nLiveConnects,
                  liveOnError, slots, discardedEnd, liveCapture >>

(* The output clock advances by one tick. *)
Tick ==
  /\ outputAudioContext
  /\ currentTime < MaxClock
  /\ currentTime' = currentTime + 1
  /\ liveDid' = LiveOther
  /\ UNCHANGED << liveIsConnected, liveAudioContext, outputAudioContext,
                  liveMediaStream, liveInputProcessor, session, nextStartTime,
                  sources, livePc, socket, decoding, nChunks, nLiveConnects,
                  liveOnError, slots, discardedEnd, liveCapture >>

(* onclose: the live connection closed. *)
OnClose ==
  /\ socket = "open"
  /\ socket' = "closed"
  /\ liveIsConnected' = FALSE
  /\ liveDid' = LiveOther
  /\ UNCHANGED << liveAudioContext, outputAudioContext, liveMediaStream,
                  liveInputProcessor, session, nextStartTime, sources, livePc,
                  currentTime, decoding, nChunks, nLiveConnects, liveOnError, slots,
                  discardedEnd, liveCapture >>

(* onerror on an open connection: the error is reported and the session    *)
(* torn down.                                                              *)
OnError ==
  /\ socket = "open"
  /\ socket' = "closed"
  /\ liveOnError' = liveOnError + 1
  /\ LiveDisconnectBody
  /\ liveDid' = LiveOther
  /\ UNCHANGED << livePc, currentTime, decoding, nChunks, nLiveConnects,
                  liveCapture >>

(* onerror on a connection that has not opened, once or again: the error   *)
(* is reported and the session torn down, while the session promise is     *)
(* still to settle.                                                        *)
OnErrorConnecting ==
  /\ socket \in {"opening", "failing"}
  /\ liveOnError < MaxErrors
  /\ socket' = "failing"
  /\ liveOnError' = liveOnError + 1
  /\ LiveDisconnectBody
  /\ liveDid' = LiveOther
  /\ UNCHANGED << livePc, currentTime, decoding, nChunks, nLiveConnects,
                  liveCapture >>

(* disconnect(), called by the owner of the session; session.close()      *)
(* closes the live connection when a session is held.                      *)
LiveDisconnect ==
  /\ LiveDisconnectBody
  /\ socket' = IF session THEN "closed" ELSE socket
  /\ liveDid' = LiveDid("disconnect", LivePhase, 0, <<>>, FALSE)
  /\ UNCHANGED << livePc, currentTime, decoding, nChunks, nLiveConnects, liveOnError,
                  liveCapture >>

(***************************************************************************)
(* speechService                                                           *)
(***************************************************************************)
(* A text of n characters without markup. *)
Phrase(n) == [i \in 1..n |-> "a"]

(* speak: the first replace, which removes the markup characters. *)
(* The grave accent, the fourth markup character, is written "grave". *)
IsMarkup(c) == c \in {"*", "#", "_", "grave"}
StripMarkup(s) == SelectSeq(s, LAMBDA c : ~IsMarkup(c))

(* Where the shortest bracketed run that opens at position i of s ends:    *)
(* at the first closing bracket after i when no line break comes before    *)
(* it, else 0.                                                             *)
CloseOf(s, i) ==
  LET closes == { j \in (i + 1)..Len(s) : s[j] = "]" }
      first == CHOOSE j \in closes : \A k \in closes : j <= k
  IN  IF closes = {} THEN 0
      ELSE IF \E k \in (i + 1)..(first - 1) : s[k] = "\n" THEN 0 ELSE first

(* speak: the second replace, which removes the bracketed runs, from left  *)
(* to right.                                                               *)
RECURSIVE StripBrackets(_)
StripBrackets(s) ==
  LET opens == { i \in 1..Len(s) : s[i] = "[" }
      open == CHOOSE i \in opens : \A k \in opens : i <= k
  IN  IF opens = {} THEN s
      ELSE IF CloseOf(s, open) # 0
             THEN SubSeq(s, 1, open - 1)
                    \o StripBrackets(SubSeq(s, CloseOf(s, open) + 1, Len(s)))
             ELSE SubSeq(s, 1, open) \o StripBrackets(SubSeq(s, open + 1, Len(s)))

(* speak: spokenText *)
Normalize(text) == Trim(StripBrackets(StripMarkup(text)))

(* Variant: only a text that is empty as given is skipped. *)
IsNoopUnlessGiven(text) == text = <<>>

(* speak: if (!text) return; ... if (!spokenText) return; *)
IsNoop(text) == text = <<>> \/ Normalize(text) = <<>>

(* audioCache.has(key), audioCache.get(key) *)
CacheKeys(cache) == { cache[i].key : i \in 1..Len(cache) }
CacheHas(cache, key) == key \in CacheKeys(cache)
CacheGet(cache, key) ==
  LET i == CHOOSE j \in 1..Len(cache) : cache[j].key = key IN cache[i].buf

(* Variant: the breaker is not consulted. *)
BreakerIgnored(open) == FALSE

(* speak: if (isQuotaExhausted) { fallbackSpeak(spokenText); return; } *)
BreakerRoutes(open) == open

(* Variant: short texts are synthesized like any other. *)
ShortSynthesized(spokenText, cache) == FALSE

(* speak: if (isShortCommand && !audioCache.has(spokenText)) *)
ShortRoutes(spokenText, cache) ==
  Len(spokenText) < ShortBelow /\ ~CacheHas(cache, spokenText)

(* Variant: the cache is not consulted. *)
CacheMissAlways(spokenText, cache) == FALSE

(* speak: if (audioCache.has(spokenText)) *)
CacheRoutes(spokenText, cache) == CacheHas(cache, spokenText)

(* The tokens of the quota pattern an error can carry; an error is given   *)
(* by the tokens its JSON form holds and those its message holds.          *)
QuotaTokens == {"429", "RESOURCE_EXHAUSTED", "quota"}

(* speak (catch): the test on JSON.stringify(err) and err.message. *)
Trips(err) ==
  \/ "429" \in err.json
  \/ "RESOURCE_EXHAUSTED" \in err.json
  \/ "quota" \in err.message

(* Variant: the breaker follows the last failure. *)
BreakerFollowsFailure(open, err) == Trips(err)

(* speak (catch): isQuotaExhausted after a failure with err. *)
BreakerAfterFailure(open, err) == open \/ Trips(err)

(* Variant: a store at capacity removes nothing. *)
CacheKeptAfterStore(cache, key, buf) ==
  IF Len(key) < CacheBelow THEN Append(cache, [key |-> key, buf |-> buf]) ELSE cache

(* Variant: texts of any length are stored. *)
CacheAfterStoreAnyLength(cache, key, buf) ==
  Append(IF Len(cache) >= MAX_CACHE_SIZE THEN Tail(cache) ELSE cache,
         [key |-> key, buf |-> buf])

(* speak (cache logic): the Map after a synthesis of key gave buf.  A Map  *)
(* keeps a key that is set again at its place.                             *)
CacheAfterStore(cache, key, buf) ==
  IF Len(key) < CacheBelow
    THEN LET kept == IF Len(cache) >= MAX_CACHE_SIZE /\ cache[1].key # <<>>
                       THEN Tail(cache) ELSE cache
         IN  IF CacheHas(kept, key)
               THEN [i \in 1..Len(kept) |->
                       IF kept[i].key = key THEN [key |-> key, buf |-> buf]
                       ELSE kept[i]]
               ELSE Append(kept, [key |-> key, buf |-> buf])
    ELSE cache

(* What a step is recorded with: the operation, the call it belongs to,   *)
(* the text as given and as normalized, and the error it was given.        *)
Did(op, id, raw, text, err) ==
  [op |-> op, id |-> id, raw |-> raw, text |-> text, err |-> err]

SpeechInit ==
  /\ audioCtx = FALSE
  /\ currentSource = 0
  /\ audioCache = <<>>
  /\ isQuotaExhausted = FALSE
  /\ speechPlaying = {}
  /\ synth = <<>>
  /\ voicesLoaded = FALSE
  /\ onvoiceschanged = 0
  /\ timers = {}
  /\ speechCalls = {}
  /\ nSpeaks = 0
  /\ did = Did("init", 0, <<>>, <<>>, <<>>)

(* fallbackSpeak(text) for the call id, after speechSynthesis.cancel():    *)
(* with voices the utterance is spoken at once, without it is left to the  *)
(* onvoiceschanged handler and to a 300 ms timeout.                        *)
FallbackSpeak(id) ==
  /\ synth' = IF voicesLoaded THEN << id >> ELSE <<>>
  /\ onvoiceschanged' = IF voicesLoaded THEN onvoiceschanged ELSE id
  /\ timers' = IF voicesLoaded THEN timers ELSE timers \cup {id}

(* playBuffer(buffer, ctx) for the call id: stopSpeech(), then a new       *)
(* source playing the buffer buf is started and becomes currentSource.     *)
PlayBuffer(id, buf) ==
  /\ synth' = <<>>
  /\ speechPlaying' = { src \in speechPlaying : src.id # currentSource }
                        \cup {[id |-> id, buf |-> buf]}
  /\ currentSource' = id

(* stopSpeech(): the current source stopped and forgotten, the fallback    *)
(* voice cancelled.                                                        *)
StopSpeechBody ==
  /\ currentSource' = 0
  /\ speechPlaying' = { src \in speechPlaying : src.id # currentSource }
  /\ synth' = <<>>

(* speak(text), up to its first await or its return. *)
Speak(text) ==
  /\ nSpeaks' = nSpeaks + 1
  /\ did' = Did("speak", nSpeaks + 1, text, Normalize(text), <<>>)
  /\ UNCHANGED << isQuotaExhausted, audioCache, voicesLoaded >>
  /\ LET id == nSpeaks + 1
         spokenText == Normalize(text)
     IN  IF IsNoop(text)
           THEN UNCHANGED << audioCtx, currentSource, speechPlaying, synth,
                             onvoiceschanged, timers, speechCalls >>
         ELSE IF BreakerRoutes(isQuotaExhausted)
                 \/ ShortRoutes(spokenText, audioCache)
           THEN /\ currentSource' = 0
                /\ speechPlaying' = { src \in speechPlaying : src.id # currentSource }
                /\ FallbackSpeak(id)
                /\ UNCHANGED << audioCtx, speechCalls >>
         ELSE IF CacheRoutes(spokenText, audioCache)
           THEN /\ audioCtx' = TRUE
                /\ PlayBuffer(id, CacheGet(audioCache, spokenText))
                /\ UNCHANGED << onvoiceschanged, timers, speechCalls >>
         ELSE /\ audioCtx' = TRUE
              /\ StopSpeechBody
              /\ speechCalls' = speechCalls \cup
                   {[id |-> id, text |-> spokenText, stage |-> "generateTTS"]}
              /\ UNCHANGED << onvoiceschanged, timers >>

(* stopSpeech(), called by the application. *)
StopSpeech ==
  /\ StopSpeechBody
  /\ did' = Did("stopSpeech", 0, <<>>, <<>>, <<>>)
  /\ UNCHANGED << audioCtx, audioCache, isQuotaExhausted, voicesLoaded,
                  onvoiceschanged, timers, speechCalls, nSpeaks >>

(* generateTTS resolved for the call c: speak goes on to its await of      *)
(* decodeAudioData.                                                        *)
TtsOk(c) ==
  /\ c \in speechCalls
  /\ c.stage = "generateTTS"
  /\ speechCalls' = (speechCalls \ {c}) \cup {[c EXCEPT !.stage = "decodeAudioData"]}
  /\ did' = Did("generateTTS", c.id, <<>>, c.text, <<>>)
  /\ UNCHANGED << audioCtx, currentSource, audioCache, isQuotaExhausted,
                  speechPlaying, synth, voicesLoaded, onvoiceschanged, timers,
                  nSpeaks >>

(* generateTTS or decodeAudioData rejected with err for the call c: the    *)
(* catch block of speak.                                                   *)
SynthesisFail(c, err) ==
  /\ c \in speechCalls
  /\ speechCalls' = speechCalls \ {c}
  /\ isQuotaExhausted' = BreakerAfterFailure(isQuotaExhausted, err)
  /\ FallbackSpeak(c.id)
  /\ did' = Did("catch", c.id, <<>>, c.text, << err >>)
  /\ UNCHANGED << audioCtx, currentSource, audioCache, speechPlaying,
                  voicesLoaded, nSpeaks >>

(* decodeAudioData resolved for the call c: the cache logic, then          *)
(* playBuffer.  The decoded buffer is identified by the call's id.         *)
SpeechDecodeOk(c) ==
  /\ c \in speechCalls
  /\ c.stage = "decodeAudioData"
  /\ speechCalls' = speechCalls \ {c}
  /\ audioCache' = CacheAfterStore(audioCache, c.text, c.id)
  /\ PlayBuffer(c.id, c.id)
  /\ did' = Did("decodeAudioData", c.id, <<>>, c.text, <<>>)
  /\ UNCHANGED << audioCtx, isQuotaExhausted, voicesLoaded, onvoiceschanged,
                  timers, nSpeaks >>

(* A playing source reaches the end of its buffer: its onended handler.    *)
SpeechSourceEnded(src) ==
  /\ src \in speechPlaying
  /\ speechPlaying' = speechPlaying \ {src}
  /\ currentSource' = IF currentSource = src.id THEN 0 ELSE currentSource
  /\ did' = Did("onended", src.id, <<>>, <<>>, <<>>)
  /\ UNCHANGED << audioCtx, audioCache, isQuotaExhausted, synth, voicesLoaded,
                  onvoiceschanged, timers, speechCalls, nSpeaks >>

(* The fallback voice finishes the utterance at the head of its queue. *)
UtteranceEnded ==
  /\ synth # <<>>
  /\ synth' = Tail(synth)
  /\ did' = Did("utteranceEnded", Head(synth), <<>>, <<>>, <<>>)
  /\ UNCHANGED << audioCtx, currentSource, audioCache, isQuotaExhausted,
                  speechPlaying, voicesLoaded, onvoiceschanged, timers,
                  speechCalls, nSpeaks >>

(* The browser has loaded its voices: the voiceschanged event, and the     *)
(* handler fallbackSpeak left, if any.                                     *)
VoicesChanged ==
  /\ ~voicesLoaded
  /\ voicesLoaded' = TRUE
  /\ onvoiceschanged' = 0
  /\ synth' = IF onvoiceschanged # 0 THEN Append(synth, onvoiceschanged) ELSE synth
  /\ did' = Did("voiceschanged", onvoiceschanged, <<>>, <<>>, <<>>)
  /\ UNCHANGED << audioCtx, currentSource, audioCache, isQuotaExhausted,
                  speechPlaying, timers, speechCalls, nSpeaks >>

(* The 300 ms timeout fallbackSpeak set for the utterance u. *)
FallbackTimeout(u) ==
  /\ u \in timers
  /\ timers' = timers \ {u}
  /\ synth' = IF synth = <<>> THEN << u >> ELSE synth
  /\ did' = Did("timeout", u, <<>>, <<>>, <<>>)
  /\ UNCHANGED << audioCtx, currentSource, audioCache, isQuotaExhausted,
                  speechPlaying, voicesLoaded, onvoiceschanged, speechCalls,
                  nSpeaks >>

(***************************************************************************)
(* Specifications                                                          *)
(***************************************************************************)
(* Free capture: frames of any volume. *)
Capture ==
  /\ nFrames < MaxFrames
  /\ \E rms \in RmsLevels, dt \in Delays : OnAudioProcess(rms, dt)
  /\ UNCHANGED fed

(* Speaking level of the design: volume at or above the threshold. *)
SpeakingLevel(rms) == rms >= SilentBelow

(* The frames of a scripted feed that were below speaking level. *)
SilentFed == { i \in 1..Len(fed) : ~SpeakingLevel(fed[i]) }

(* Scripted capture at the nominal cadence: up to MaxScript speaking       *)
(* frames, then up to MaxPause silent ones.                                *)
ScriptedCapture ==
  /\ nFrames < MaxScript
  /\ \E rms \in RmsLevels :
       /\ IF SpeakingLevel(rms) THEN SilentFed = {} ELSE Cardinality(SilentFed) < MaxPause
       /\ OnAudioProcess(rms, FramePeriodMs)
       /\ fed' = Append(fed, rms)

Settle ==
  \/ \E i \in 1..Len(inflight), r \in Responses : TranscribeOk(i, r)
  \/ \E i \in 1..Len(inflight) : TranscribeFail(i)

Lifecycle ==
  \/ ConnectBegin
  \/ GetUserMediaOk
  \/ GetUserMediaFail
  \/ Disconnect

(* A run that is not scripted leaves the script's counts at zero. *)
ScriptInit == script = [fresh |-> 0, hits |-> 0, repeats |-> 0]

(* A run that calls no function of audioUtils by itself. *)
NoAudio ==
  [x |-> <<>>, rin |-> RequestedRate, rout |-> RequestedRate, y |-> <<>>,
   applied |-> FALSE]

Init ==
  /\ G3Init /\ fed = <<>> /\ LiveInit /\ SpeechInit /\ ScriptInit
  /\ audio = NoAudio /\ barge = 0

SegNext ==
  \/ Capture /\ UNCHANGED << liveVars, speechVars, script, audio, barge >>
  \/ Settle /\ UNCHANGED << fed, liveVars, speechVars, script, audio, barge >>
  \/ Lifecycle /\ UNCHANGED << fed, liveVars, speechVars, script, audio, barge >>

(* A session that stays connected while frames keep arriving, with pauses  *)
(* that end once they are over the pause threshold: at most MaxPending     *)
(* frames wait behind a call in flight, and capture goes on until          *)
(* MaxSegments segments were dispatched.                                   *)
FlowCapture ==
  /\ Len(dispatched) < MaxSegments
  /\ Len(buffer) < MaxPending \/ ~isProcessing
  /\ \E rms \in RmsLevels :
       /\ IsSilent(rms) => now - silenceStart <= PauseMs
       /\ OnAudioProcess(rms, FramePeriodMs)
  /\ UNCHANGED fed

(* Every call returns a text or fails. *)
FlowSettle ==
  \/ \E i \in 1..Len(inflight) : TranscribeOk(i, << "h", "i" >>)
  \/ \E i \in 1..Len(inflight) : TranscribeFail(i)

FlowConnect ==
  \/ nConnects = 0 /\ ConnectBegin
  \/ audioContext # 0 /\ GetUserMediaOk

FlowNext ==
  \/ FlowCapture /\ UNCHANGED << liveVars, speechVars, script, audio, barge >>
  \/ FlowSettle /\ UNCHANGED << fed, liveVars, speechVars, script, audio, barge >>
  \/ FlowConnect /\ UNCHANGED << fed, liveVars, speechVars, script, audio, barge >>

(* Capture callbacks keep arriving and every transcription call settles. *)
SpecFlow ==
  /\ Init
  /\ [][FlowNext]_vars
  /\ WF_vars(FlowCapture /\ UNCHANGED << liveVars, speechVars, script, audio, barge >>)
  /\ WF_vars(FlowSettle /\ UNCHANGED << fed, liveVars, speechVars, script, audio, barge >>)

(* A Gemini3ContinuousSession under free capture. *)
SpecSeg == Init /\ [][SegNext]_vars

(* The scripted session is connected once: no second connect(). *)
ScriptNext ==
  \/ ScriptedCapture /\ UNCHANGED << liveVars, speechVars, script, audio, barge >>
  \/ Settle /\ UNCHANGED << fed, liveVars, speechVars, script, audio, barge >>
  \/ Lifecycle /\ nConnects' <= 1 /\ UNCHANGED << fed, liveVars, speechVars, script, audio, barge >>

(* A Gemini3ContinuousSession under a scripted feed. *)
SpecScript == Init /\ [][ScriptNext]_vars

LiveLifecycle ==
  \/ LiveConnectBegin(RequestedRate)
  \/ LiveGetUserMediaOk
  \/ LiveConnectFail
  \/ OnOpen
  \/ SessionResolved
  \/ OnClose
  \/ OnError
  \/ LiveDisconnect

Playback ==
  \/ \E hasAudio \in BOOLEAN, dur \in Durations, interrupted \in BOOLEAN :
       OnMessage(hasAudio, dur, interrupted)
  \/ \E c \in decoding : DecodeDone(c)
  \/ \E c \in decoding : DecodeFail(c)
  \/ \E src \in sources : SourceEnded(src)
  \/ Tick

LiveNext ==
  \/ LiveLifecycle /\ UNCHANGED << g3Vars, fed, speechVars, script, audio, barge >>
  \/ Playback /\ UNCHANGED << g3Vars, fed, speechVars, script, audio, barge >>

(* A LiveAudioSession. *)
SpecLive == Init /\ [][LiveNext]_vars

(* Volume metrics of a frame in the live session: at the speaking          *)
(* threshold, which is silent, and just above it.                          *)
LiveRmsLevels == {SilentBelow, SilentBelow + 1}
(* Sample rates the browser gives the input context: the requested one, or *)
(* the rate of the device.                                                 *)
DeviceRates == {RequestedRate, 48000}
(* Delays between two capture callbacks of a quiet room: the nominal       *)
(* cadence, and a stall of the length of the silence watchdog.             *)
QuietDelays == {FramePeriodMs, SilenceMs}

CaptureLifecycle ==
  \/ \E rate \in DeviceRates : LiveConnectBegin(rate)
  \/ LiveGetUserMediaOk
  \/ LiveConnectFail
  \/ OnOpen
  \/ SessionResolved
  \/ OnClose
  \/ OnError
  \/ OnErrorConnecting
  \/ LiveDisconnect

CaptureFrames ==
  /\ nLiveFrames < MaxLiveFrames
  /\ \E rms \in LiveRmsLevels : LiveOnAudioProcess(rms, FramePeriodMs)

CapturePlayback ==
  \/ \E dur \in Durations : OnMessage(TRUE, dur, FALSE)
  \/ \E c \in decoding : DecodeDone(c)

CaptureNext ==
  \/ CaptureLifecycle /\ UNCHANGED << g3Vars, fed, speechVars, script, audio, barge >>
  \/ CaptureFrames /\ UNCHANGED << g3Vars, fed, speechVars, script, audio, barge >>
  \/ CapturePlayback /\ UNCHANGED << g3Vars, fed, speechVars, script, audio, barge >>

(* A LiveAudioSession, its connection and its capture. *)
SpecCapture == Init /\ [][CaptureNext]_vars

(* An open session that receives chunks and interruptions; barge keeps     *)
(* the number of chunks received when the last interruption was handled.   *)
BargeMessage ==
  \E hasAudio \in BOOLEAN, dur \in Durations, interrupted \in BOOLEAN :
    /\ OnMessage(hasAudio, dur, interrupted)
    /\ barge' = IF interrupted THEN nChunks' ELSE barge

BargePlayback ==
  \/ \E c \in decoding : DecodeDone(c)
  \/ \E c \in decoding : DecodeFail(c)
  \/ \E src \in sources : SourceEnded(src)
  \/ Tick

BargeConnect ==
  \/ LiveConnectBegin(RequestedRate)
  \/ LiveGetUserMediaOk
  \/ OnOpen
  \/ SessionResolved

BargeNext ==
  \/ BargeMessage /\ UNCHANGED << g3Vars, fed, speechVars, script, audio >>
  \/ BargePlayback /\ UNCHANGED << g3Vars, fed, speechVars, script, audio, barge >>
  \/ BargeConnect /\ UNCHANGED << g3Vars, fed, speechVars, script, audio, barge >>

(* A LiveAudioSession that is interrupted while it plays. *)
SpecBarge == Init /\ [][BargeNext]_vars

(* A connected session in a quiet room: frames at and above the speaking   *)
(* threshold, at the nominal cadence or after a stall.                     *)
QuietConnect ==
  \/ LiveConnectBegin(RequestedRate)
  \/ LiveGetUserMediaOk
  \/ OnOpen
  \/ SessionResolved

QuietFrames ==
  /\ nLiveFrames < MaxQuietFrames
  /\ \E rms \in LiveRmsLevels, dt \in QuietDelays : LiveOnAudioProcess(rms, dt)

QuietNext ==
  \/ QuietConnect /\ UNCHANGED << g3Vars, fed, speechVars, script, audio, barge >>
  \/ QuietFrames /\ UNCHANGED << g3Vars, fed, speechVars, script, audio, barge >>

SpecQuiet == Init /\ [][QuietNext]_vars

(* The two kinds of session through their connections and teardowns, each  *)
(* with a little audio: frames for the segmenter, chunks for the playback. *)
TeardownFrames ==
  /\ nFrames < MaxLiveFrames
  /\ OnAudioProcess(SilentBelow + 1, FramePeriodMs)
  /\ UNCHANGED fed

TeardownPlayback ==
  /\ decoding = {} /\ sources = {}
  /\ \E dur \in Durations : OnMessage(TRUE, dur, FALSE)

(* The two sessions share no state: a behaviour follows one of them. *)
TeardownNext ==
  \/ nConnects = 0 /\ CaptureLifecycle
       /\ UNCHANGED << g3Vars, fed, speechVars, script, audio, barge >>
  \/ TeardownPlayback /\ UNCHANGED << g3Vars, fed, speechVars, script, audio, barge >>
  \/ (\E c \in decoding : DecodeDone(c))
       /\ UNCHANGED << g3Vars, fed, speechVars, script, audio, barge >>
  \/ nLiveConnects = 0 /\ Lifecycle
       /\ UNCHANGED << fed, liveVars, speechVars, script, audio, barge >>
  \/ TeardownFrames /\ UNCHANGED << liveVars, speechVars, script, audio, barge >>

SpecTeardown == Init /\ [][TeardownNext]_vars

(***************************************************************************)
(* audioUtils: the resampler                                               *)
(***************************************************************************)
(* The number of samples of the output: the input's duration at the        *)
(* target rate, rounded to the nearest sample.                             *)
ResampledLen(n, rin, rout) == (2 * n * rout + rin) \div (2 * rin)

(* Output sample i (from 0) of an input x of rate rin at rate rout: the    *)
(* input at position i * rin / rout, interpolated between its two          *)
(* neighbours (the last sample stands for what follows it).                *)
Interpolated(x, i, rin, rout) ==
  LET lo == Min((i * rin) \div rout, Len(x) - 1)
      hi == Min(lo + 1, Len(x) - 1)
      frac == (i * rin) % rout
  IN  (x[lo + 1] * (rout - frac) + x[hi + 1] * frac) \div rout

(* Resample: pass-through when the rates are equal, else interpolation. *)
Resample(x, rin, rout) ==
  IF rin = rout THEN x
  ELSE [k \in 1..ResampledLen(Len(x), rin, rout) |->
          Interpolated(x, k - 1, rin, rout)]

(* Sample values, sample sequences and rates given to the resampler. *)
SampleValues == {0 - 2, 0, 3}
Samples == UNION { [1..n -> SampleValues] : n \in 0..MaxSamples }
Rates == {8000, RequestedRate, 48000}

ResampleInit ==
  /\ G3Init /\ fed = <<>> /\ LiveInit /\ SpeechInit /\ ScriptInit /\ barge = 0
  /\ audio \in [x : Samples, rin : Rates, rout : Rates, y : {<<>>},
                 applied : {FALSE}]

(* One call of the resampler. *)
ApplyResample ==
  /\ ~audio.applied
  /\ nLiveConnects = 0
  /\ audio' = [audio EXCEPT !.y = Resample(audio.x, audio.rin, audio.rout),
                             !.applied = TRUE]

(* The capture path of a live session on a device of either rate, in a run *)
(* that calls the resampler in no other way.                               *)
ResampleCapture ==
  /\ audio = NoAudio
  /\ \/ \E rate \in DeviceRates : LiveConnectBegin(rate)
     \/ LiveGetUserMediaOk
     \/ OnOpen
     \/ SessionResolved
     \/ CaptureFrames

ResampleNext ==
  \/ ApplyResample /\ UNCHANGED << g3Vars, fed, liveVars, speechVars, script, barge >>
  \/ ResampleCapture /\ UNCHANGED << g3Vars, fed, speechVars, script, audio, barge >>

(* The resampler on its own and in the capture path. *)
SpecResample == ResampleInit /\ [][ResampleNext]_vars

(***************************************************************************)
(* audioUtils: the PCM encoder and the WAV framer                          *)
(***************************************************************************)
(* A sample is written in thousandths: 1000 stands for 1.0. *)
Unit == 1000
FullScale == 32767

(* Variant: the encoder does not clamp. *)
Unclamped(s) == s

(* The sample clamped to [-1, 1]. *)
Clamped(s) == Max(0 - Unit, Min(Unit, s))

(* round(s * 32767) of a clamped sample, halves rounded up. *)
Scaled(s) == (2 * s * FullScale + Unit) \div (2 * Unit)

(* float32ToPCM16: one 16-bit signed integer for each sample. *)
Float32ToPCM16(x) == [i \in 1..Len(x) |-> Scaled(Clamped(x[i]))]

(* The bytes of a 16-bit and of a 32-bit integer, little-endian. *)
LE16(v) == LET u == v % 65536 IN << u % 256, u \div 256 >>
LE32(n) ==
  << n % 256, (n \div 256) % 256, (n \div 65536) % 256, n \div 16777216 >>

(* The PCM payload: the samples' bytes, little-endian. *)
RECURSIVE PcmBytes(_)
PcmBytes(pcm) ==
  IF pcm = <<>> THEN <<>> ELSE LE16(Head(pcm)) \o PcmBytes(Tail(pcm))

(* The four-character tags of the container, as bytes. *)
TagRIFF == << 82, 73, 70, 70 >>
TagWAVE == << 87, 65, 86, 69 >>
TagFmt == << 102, 109, 116, 32 >>
TagData == << 100, 97, 116, 97 >>

(* createWavHeader: the canonical RIFF/WAVE header of a PCM payload of     *)
(* dataLength bytes.                                                       *)
CreateWavHeader(sampleRate, numChannels, dataLength) ==
  TagRIFF \o LE32(36 + dataLength) \o TagWAVE
    \o TagFmt \o LE32(16) \o LE16(1) \o LE16(numChannels) \o LE32(sampleRate)
    \o LE32(sampleRate * numChannels * 2) \o LE16(numChannels * 2) \o LE16(16)
    \o TagData \o LE32(dataLength)

(* Variant: the header declares the number of samples, not of bytes. *)
PayloadInSamples(pcm) == Len(pcm)

(* pcm16.byteLength: the length of the payload in bytes. *)
ByteLength(pcm) == 2 * Len(pcm)

(* Sample sequences given to the encoder: silence, the smallest steps, the *)
(* limits, values inside and values out of range.                          *)
PcmValues == {0 - 1500, 0 - Unit, 0 - 1, 0, 1, 900, Unit, 1500}
PcmInputs == UNION { [1..n -> PcmValues] : n \in 0..MaxSamples }

EncodeInit ==
  /\ G3Init /\ fed = <<>> /\ LiveInit /\ SpeechInit /\ ScriptInit /\ barge = 0
  /\ audio \in [x : PcmInputs, rate : {RequestedRate}, pcm : {<<>>},
                 wire : {<<>>}, stage : {"flattened"}]

(* processBuffer, from the flattened segment to its PCM payload. *)
EncodeSegment ==
  /\ audio.stage = "flattened"
  /\ audio' = [audio EXCEPT
                 !.pcm = Float32ToPCM16(Resample(audio.x, audio.rate, RequestedRate)),
                 !.stage = "encoded"]

(* processBuffer, from the PCM payload to the bytes of the WAV file. *)
FrameSegment ==
  /\ audio.stage = "encoded"
  /\ audio' = [audio EXCEPT
                 !.wire = CreateWavHeader(RequestedRate, 1, ByteLength(audio.pcm))
                            \o PcmBytes(audio.pcm),
                 !.stage = "framed"]

EncodeNext ==
  \/ EncodeSegment /\ UNCHANGED << g3Vars, fed, liveVars, speechVars, script, barge >>
  \/ FrameSegment /\ UNCHANGED << g3Vars, fed, liveVars, speechVars, script, barge >>

(* The encoding of a segment for the transcription service. *)
SpecEncode == EncodeInit /\ [][EncodeNext]_vars

(* Texts given to speak(): empty, empty once normalized, a short label, a  *)
(* text at the short-utterance threshold plain and with markup, and a text *)
(* at the cache threshold.                                                 *)
Home == << "H", "o", "m", "e" >>
SpokenTexts ==
  { <<>>, << "*", "[", "x", "]", " " >>, Home, Phrase(ShortBelow),
    << "#" >> \o Phrase(ShortBelow), Phrase(CacheBelow) }

(* Errors generateTTS and decodeAudioData reject with: no token of the     *)
(* quota pattern, one in the JSON form, or one in the message only (the    *)
(* JSON form of an Error object does not hold its message).                *)
Errors ==
  { [json |-> {}, message |-> {}],
    [json |-> {"429"}, message |-> {}],
    [json |-> {"RESOURCE_EXHAUSTED"}, message |-> {"RESOURCE_EXHAUSTED"}],
    [json |-> {}, message |-> {"quota"}],
    [json |-> {}, message |-> {"429"}] }

SpeechSettle ==
  \E c \in speechCalls :
    \/ TtsOk(c)
    \/ SpeechDecodeOk(c)
    \/ \E err \in Errors : SynthesisFail(c, err)

SpeechEnvironment ==
  \/ \E src \in speechPlaying : SpeechSourceEnded(src)
  \/ UtteranceEnded
  \/ VoicesChanged
  \/ \E u \in timers : FallbackTimeout(u)

SpeechNext ==
  \/ nSpeaks < MaxSpeaks /\ (\E text \in SpokenTexts : Speak(text))
       /\ UNCHANGED << g3Vars, fed, liveVars, script, audio, barge >>
  \/ StopSpeech /\ UNCHANGED << g3Vars, fed, liveVars, script, audio, barge >>
  \/ SpeechSettle /\ UNCHANGED << g3Vars, fed, liveVars, script, audio, barge >>
  \/ SpeechEnvironment /\ UNCHANGED << g3Vars, fed, liveVars, script, audio, barge >>

(* The speech service under any calls. *)
SpecSpeech == Init /\ [][SpeechNext]_vars

(* The k-th distinct cacheable text of a scripted run, longest first. *)
Fresh(k) == Phrase(CacheBelow - k)

(* A scripted run that fills the cache: each call speaks, with no call     *)
(* pending, the next distinct text or the oldest text in the cache, or     *)
(* repeats a text whose synthesis is pending; every synthesis succeeds.    *)
FillSpeak ==
  /\ nSpeaks < MaxFill
  /\ \/ /\ speechCalls = {}
        /\ Speak(Fresh(script.fresh + 1))
        /\ script' = [script EXCEPT !.fresh = @ + 1]
     \/ /\ speechCalls = {}
        /\ audioCache # <<>>
        /\ script.hits < MaxHits
        /\ Speak(audioCache[1].key)
        /\ script' = [script EXCEPT !.hits = @ + 1]
     \/ /\ script.repeats < MaxRepeats
        /\ Cardinality(speechCalls) < MaxOverlap
        /\ \E c \in speechCalls :
             /\ ~CacheHas(audioCache, c.text)
             /\ Speak(c.text)
        /\ script' = [script EXCEPT !.repeats = @ + 1]

FillNext ==
  \/ FillSpeak /\ UNCHANGED << g3Vars, fed, liveVars, audio, barge >>
  \/ (\E c \in speechCalls : TtsOk(c)) /\ UNCHANGED << g3Vars, fed, liveVars, script, audio, barge >>
  \/ (\E c \in speechCalls : SpeechDecodeOk(c))
       /\ UNCHANGED << g3Vars, fed, liveVars, script, audio, barge >>

(* The speech service while its cache is filled. *)
SpecFill == Init /\ [][FillNext]_vars

(***************************************************************************)
(* Properties of the segmenter and the dispatcher                          *)
(***************************************************************************)
Kept(frame) == frame \notin tornDown

(* Samples of audio actually held in a buffer of frames. *)
SamplesOf(buf) == Len(buf) * FrameSize

(* The flush conditions of the design, on the audio actually pending after *)
(* a frame was appended: over the ceiling, or over the floor with a pause. *)
OverCeiling(samples, rate) == samples > CeilingSec * rate
NaturalPause(samples, rate, sinceSpeech) ==
  samples * 10 > FloorTenths * rate /\ sinceSpeech > PauseMs

(* Whole frames needed to hold ms milliseconds of audio at the requested rate. *)
FramesFor(ms) == (ms * RequestedRate + 1000 * FrameSize - 1) \div (1000 * FrameSize)

(* A scripted feed of exactly `speaking` speaking frames then `silent`     *)
(* silent ones, every one of them delivered to a connected session.        *)
FedExactly(speaking, silent) ==
  /\ Len(fed) = speaking + silent
  /\ SilentFed = (speaking + 1)..(speaking + silent)
  /\ delivered = [i \in 1..Len(fed) |-> i]

(* C1: the dispatched segments, in dispatch order, followed by the pending *)
(* buffer are exactly the frames delivered while connected, in delivery    *)
(* order, each once (less the frames a teardown discarded).                *)
C1_NoFrameLost ==
  Flatten(dispatched) \o buffer = SelectSeq(delivered, Kept)

(* C1 witness: frames arrived while a segment was in flight, and a second  *)
(* segment has been dispatched since, without any teardown.                *)
C1_Witness ==
  /\ tornDown = {}
  /\ Len(dispatched) >= 2
  /\ isProcessing
  /\ buffer # <<>>

(* C2: at most one transcribeAudio call is unsettled at any time, and the  *)
(* in-flight marker is set exactly while one is.                           *)
C2_OneInFlight ==
  /\ Len(inflight) <= 1
  /\ isProcessing <=> (Len(inflight) = 1)

(* C2 witness: a segment is in flight while the pending buffer satisfies   *)
(* the natural-pause condition, so only the marker holds the flush back.   *)
C2_Witness ==
  /\ isConnected
  /\ Len(inflight) = 1
  /\ NaturalPause(bufferLength, SampleRateOf(audioContext), now - silenceStart)

(* C3 as claimed: under continuous speaking input the pending buffer never *)
(* holds more than the ceiling plus one frame of audio.                    *)
C3_BoundedPending ==
  (isConnected /\ SilentFed = {}) =>
    SamplesOf(buffer) <= CeilingSec * SampleRateOf(audioContext) + FrameSize

(* C3 as amended: under continuous speaking input, a frame that takes the  *)
(* pending audio over the ceiling while no segment is in flight dispatches *)
(* the whole pending buffer in that callback; and the pending buffer is    *)
(* over the ceiling only after an earlier segment was dispatched.          *)
C3_ForcedFlush ==
  /\ []((isConnected /\ SilentFed = {}
          /\ OverCeiling(SamplesOf(buffer), SampleRateOf(audioContext)))
        => dispatched # <<>>)
  /\ [][(/\ delivered' # delivered
         /\ SilentFed' = {}
         /\ ~isProcessing
         /\ OverCeiling(SamplesOf(buffer) + FrameSize, SampleRateOf(audioContext)))
        => (/\ dispatched' = Append(dispatched, Append(buffer, nFrames'))
            /\ buffer' = <<>>)]_vars

(* C3 witness: a forced flush under continuous speaking input. *)
C3_Witness ==
  /\ SilentFed = {}
  /\ Len(dispatched) >= 1
  /\ OverCeiling(SamplesOf(dispatched[1]), RequestedRate)

(* C4 as claimed: a frame is followed by a dispatch only if the audio      *)
(* pending after it is over the ceiling or shows a natural pause, and      *)
(* always if so while no segment is in flight.                             *)
C4_DispatchIffCondition ==
  [][delivered' # delivered =>
       LET samples == SamplesOf(buffer) + FrameSize
           rate == SampleRateOf(audioContext)
           due == \/ OverCeiling(samples, rate)
                  \/ NaturalPause(samples, rate, now' - lastSpeech')
       IN  /\ dispatched' # dispatched => due
           /\ (~isProcessing /\ due) => dispatched' # dispatched]_vars

(* C4 witness: a segment shorter than the floor was dispatched. *)
C4_Witness ==
  \E j \in 1..Len(dispatched) :
    SamplesOf(dispatched[j]) * 10 <= FloorTenths * RequestedRate

(* C5 as claimed: 1.2 s of speaking audio then 0.5 s of silence give one   *)
(* segment, dispatched on the last silent frame, about 1.2 s long (within  *)
(* one frame period of the speaking audio).                                *)
C5_SpeakingAudioOnly ==
  /\ FedExactly(FramesFor(1200), FramesFor(500) - 1) => dispatched = <<>>
  /\ FedExactly(FramesFor(1200), FramesFor(500)) =>
       /\ Len(dispatched) = 1
       /\ SamplesOf(dispatched[1]) * 1000
            <= (1200 + FramePeriodMs) * RequestedRate

(* C5 as amended: the one segment is dispatched on the first frame more    *)
(* than 400 ms after the last speaking frame and holds every frame fed so  *)
(* far, the speaking audio and the trailing silence.                       *)
C5_WholeFeed ==
  /\ FedExactly(FramesFor(1200), FramesFor(500) - 1) => dispatched = <<>>
  /\ FedExactly(FramesFor(1200), FramesFor(500)) => dispatched = << delivered >>

(* C5 witness: the example's feed has been delivered. *)
C5_Witness ==
  /\ FedExactly(FramesFor(1200), FramesFor(500))
  /\ Len(dispatched) = 1

(* C6 as claimed: a capture callback that arrives after disconnect() tore  *)
(* its capture down (no processor node is held by the session) buffers     *)
(* nothing, reports no volume and starts no transcription call.            *)
C6_LateFramesDiscarded ==
  [][(nFrames' # nFrames /\ ~inputProcessor) =>
       UNCHANGED << buffer, bufferLength, delivered, nOnVolume, dispatched,
                    inflight, isProcessing >>]_vars

(* C6, the part that holds: a capture callback on a session that is not    *)
(* connected buffers nothing, reports no volume and starts no              *)
(* transcription call.                                                     *)
C6_DiscardedWhileDisconnected ==
  [][(nFrames' # nFrames /\ ~isConnected) =>
       UNCHANGED << buffer, bufferLength, delivered, nOnVolume, dispatched,
                    inflight, isProcessing >>]_vars

(* C6 witness: after disconnect() and a second connect() that still awaits *)
(* the microphone, a callback of the first capture has put a frame into    *)
(* the pending buffer.                                                     *)
C6_Witness ==
  /\ nConnects = 2
  /\ pc = "getUserMedia"
  /\ ~inputProcessor
  /\ buffer # <<>>

(* C7: onTranscript is never invoked with an empty or whitespace-only text *)
(* nor with the "No transcription generated." sentinel.                    *)
C7_NoDegenerateTranscript ==
  \A t \in transcripts :
    /\ t # <<>>
    /\ \E i \in 1..Len(t) : ~IsWhitespace(t[i])
    /\ t # Sentinel

(* C7 witness: the sentinel was returned and kept back, and a real text    *)
(* was surfaced.                                                           *)
C7_Witness ==
  /\ Sentinel \in filtered
  /\ transcripts # {}

(* C8: a failed transcription leaves the session connected, invokes no     *)
(* error callback, releases the in-flight marker and puts nothing back in  *)
(* the pending buffer; the frames of a failed segment are dispatched once. *)
C8_FailureIsLocal ==
  /\ [](\A s \in failed :
          /\ Elems(s) \cap Elems(buffer) = {}
          /\ Cardinality({ j \in 1..Len(dispatched) :
                            Elems(dispatched[j]) \cap Elems(s) # {} }) = 1)
  /\ [][failed' # failed =>
          /\ isConnected' = isConnected
          /\ nOnError' = nOnError
          /\ ~isProcessing'
          /\ buffer' = buffer]_vars

(* C8 witness: the first segment failed and a later one was dispatched on  *)
(* the still-connected session.                                            *)
C8_Witness ==
  /\ isConnected
  /\ Len(dispatched) >= 2
  /\ dispatched[1] \in failed
  /\ tornDown = {}

(***************************************************************************)
(* Properties of the playback scheduler                                    *)
(***************************************************************************)
(* End of the buffer scheduled before the i-th one (0 for the first one    *)
(* after the scheduling clock was reset).                                  *)
PreviousEnd(i) == IF i = 1 THEN 0 ELSE slots[i - 1].end

(* C9: every buffer scheduled since the last reset starts at the larger of *)
(* the output clock at its scheduling and the end of the buffer scheduled  *)
(* before it: at or after that end, exactly at it when the buffer reached  *)
(* the scheduler no later; slots do not overlap and ends do not decrease.  *)
C9_GaplessSlots ==
  \A i \in 1..Len(slots) :
    /\ slots[i].start = Max(slots[i].at, PreviousEnd(i))
    /\ slots[i].start >= PreviousEnd(i)
    /\ slots[i].at <= PreviousEnd(i) => slots[i].start = PreviousEnd(i)
    /\ slots[i].end >= PreviousEnd(i)
    /\ \A j \in 1..Len(slots) : j < i => slots[j].end <= slots[i].start

(* C9 witness: a buffer that reached the idle scheduler late started at    *)
(* the clock, and the next one, reaching it before that one's end, started *)
(* back to back with it.                                                   *)
C9_Witness ==
  /\ Len(slots) >= 2
  /\ slots[1].at > 0
  /\ slots[1].start = slots[1].at
  /\ slots[2].at < slots[1].end
  /\ slots[2].start = slots[1].end

(* C10 as claimed: of two chunks scheduled since the last reset, the one   *)
(* whose message arrived first starts first.                               *)
C10_ArrivalOrder ==
  \A i, j \in 1..Len(slots) :
    slots[i].id < slots[j].id => slots[i].start < slots[j].start

(* C10 witness: two chunks were scheduled in the opposite order of their   *)
(* arrival.                                                                *)
C10_Witness ==
  \E i, j \in 1..Len(slots) :
    slots[i].id < slots[j].id /\ slots[i].start > slots[j].start

(* The source nodes of the buffers scheduled since the last reset. *)
SlotSources ==
  { [id |-> slots[i].id, start |-> slots[i].start, end |-> slots[i].end] :
      i \in 1..Len(slots) }

(* C11: a step that discards the scheduled buffers leaves no active source *)
(* and a scheduling clock of zero; no buffer scheduled before it is active *)
(* afterwards, the scheduling clock is the end of the last buffer          *)
(* scheduled since (zero when there is none), and the first buffer         *)
(* scheduled since starts at the output clock of its scheduling.           *)
C11_InterruptionResets ==
  /\ [](sources \subseteq SlotSources)
  /\ [](nextStartTime = IF slots = <<>> THEN 0 ELSE slots[Len(slots)].end)
  /\ [](slots # <<>> => slots[1].start = slots[1].at)
  /\ [][(slots # <<>> /\ slots' = <<>>) =>
          (sources' = {} /\ nextStartTime' = 0)]_vars

(* C11 witness: on an open session, after an interruption that stopped a   *)
(* buffer, the next chunk started at the output clock, before the end the  *)
(* discarded buffers were scheduled to reach.                              *)
C11_Witness ==
  /\ socket = "open"
  /\ outputAudioContext
  /\ slots # <<>>
  /\ slots[1].start = slots[1].at
  /\ slots[1].start < discardedEnd

(***************************************************************************)
(* Properties of the speech service                                        *)
(***************************************************************************)
(* The keys of the cache, oldest insertion first. *)
KeysInOrder(cache) == [i \in 1..Len(cache) |-> cache[i].key]

(* The step just taken stored the synthesized text of a call. *)
Stored == did'.op = "decodeAudioData" /\ did' # did

(* The step just taken was a speak() call. *)
Spoke == nSpeaks' = nSpeaks + 1

(* C12: the cache never holds more than 20 entries; storing a text that is *)
(* not in the cache appends it and, at capacity, removes exactly the       *)
(* oldest-inserted entry; a speak() call, cache hit or not, leaves the     *)
(* cache and its order as they are; after 21 stores of distinct texts the  *)
(* cache holds the 2nd to the 21st, in that order.                         *)
C12_StrictFifo ==
  /\ [](Len(audioCache) <= MAX_CACHE_SIZE)
  /\ []((script.fresh = MAX_CACHE_SIZE + 1 /\ script.repeats = 0 /\ speechCalls = {})
         => KeysInOrder(audioCache) = [i \in 1..MAX_CACHE_SIZE |-> Fresh(i + 1)])
  /\ [][(Stored /\ ~CacheHas(audioCache, did'.text)) =>
          audioCache' =
            Append(IF Len(audioCache) = MAX_CACHE_SIZE THEN Tail(audioCache)
                   ELSE audioCache,
                   [key |-> did'.text, buf |-> did'.id])]_vars
  /\ [][Spoke => audioCache' = audioCache]_vars

(* C12 witness: 21 distinct texts were stored, the oldest entry was hit    *)
(* once on the way, and the cache holds 20 entries without the first text. *)
C12_Witness ==
  /\ script.fresh = MAX_CACHE_SIZE + 1
  /\ script.hits = 1
  /\ speechCalls = {}
  /\ Len(audioCache) = MAX_CACHE_SIZE
  /\ ~CacheHas(audioCache, Fresh(1))

(* What a speak() step does when it uses the fallback voice for its call:  *)
(* the utterance is given to the system voice at once, or, while no voice  *)
(* is loaded, left to the voiceschanged handler and the 300 ms timeout.    *)
UsesFallback ==
  IF voicesLoaded
    THEN synth' = << did'.id >>
    ELSE onvoiceschanged' = did'.id /\ did'.id \in timers'

(* No synthesis request is issued and no buffer playback is started. *)
NoNetworkCall == speechCalls' = speechCalls
NoBufferStarted == speechPlaying' \subseteq speechPlaying

(* C13: the circuit breaker starts closed, and once it is open no step of  *)
(* the speech service (a speak() or stopSpeech() call, a synthesis that    *)
(* succeeds or fails) closes it again.                                     *)
C13_OneWayLatch ==
  /\ (nSpeaks = 0 => ~isQuotaExhausted)
  /\ [][isQuotaExhausted => isQuotaExhausted']_vars

(* The breaker is open and a synthesis has just failed with an error that  *)
(* does not carry the quota pattern.                                       *)
C13_Witness ==
  /\ isQuotaExhausted
  /\ did.op = "catch"
  /\ did.err[1] = [json |-> {}, message |-> {}]

(* C14: a speak() call made while the breaker is open, with a text that is *)
(* not empty once normalized, uses the fallback voice, issues no synthesis *)
(* request and starts no buffer, whether the text is cached or not and     *)
(* whatever its length.                                                    *)
C14_OpenBreakerFallsBack ==
  [][(Spoke /\ isQuotaExhausted /\ did'.text # <<>>) =>
       (UsesFallback /\ NoNetworkCall /\ NoBufferStarted)]_vars

(* A cached text has just been spoken with the breaker open. *)
C14_Witness ==
  /\ did.op = "speak"
  /\ isQuotaExhausted
  /\ CacheHas(audioCache, did.text)
  /\ speechCalls = {}
  /\ speechPlaying = {}

(* An error carries the quota pattern when its JSON form or its message    *)
(* holds one of the three tokens.                                          *)
MatchesQuotaPattern(err) == (err.json \cup err.message) \cap QuotaTokens # {}

Failed == did'.op = "catch" /\ did' # did

(* C15: when a synthesis fails in speak(), the breaker is set open exactly *)
(* when the error carries the quota pattern, a failure without it leaves   *)
(* the breaker as it was, and in both cases the utterance is given to the  *)
(* fallback voice and the call ends.                                       *)
C15_TripsIffQuotaPattern ==
  [][Failed =>
       /\ isQuotaExhausted' = (isQuotaExhausted \/ MatchesQuotaPattern(did'.err[1]))
       /\ UsesFallback
       /\ \A c \in speechCalls' : c.id # did'.id]_vars

(* As C15, with the pattern read as the code reads it: "429" and           *)
(* "RESOURCE_EXHAUSTED" are looked for in the JSON form of the error only, *)
(* "quota" in its message only.                                            *)
C15_TripsAsTested ==
  [][Failed =>
       /\ isQuotaExhausted' =
            \/ isQuotaExhausted
            \/ {"429", "RESOURCE_EXHAUSTED"} \cap did'.err[1].json # {}
            \/ "quota" \in did'.err[1].message
       /\ UsesFallback
       /\ \A c \in speechCalls' : c.id # did'.id]_vars

(* A synthesis has failed with an error whose message holds "429" and      *)
(* whose JSON form holds nothing, and the breaker is closed.               *)
C15_Witness ==
  /\ did.op = "catch"
  /\ did.err[1] = [json |-> {}, message |-> {"429"}]
  /\ ~isQuotaExhausted

(* C16: a speak() call whose normalized text is not empty, shorter than 30 *)
(* characters and not cached uses the fallback voice, issues no synthesis  *)
(* request and starts no buffer; speak("Home") is such a call.             *)
C16_ShortUncachedFallsBack ==
  /\ [](Len(Normalize(Home)) < ShortBelow /\ Normalize(Home) = Home)
  /\ [][(Spoke /\ did'.text # <<>> /\ Len(did'.text) < ShortBelow
           /\ ~CacheHas(audioCache, did'.text)) =>
         (UsesFallback /\ NoNetworkCall /\ NoBufferStarted)]_vars

(* speak("Home") has just been called with the breaker closed, and the     *)
(* fallback voice speaks it.                                               *)
C16_Witness ==
  /\ did.op = "speak"
  /\ did.raw = Home
  /\ ~isQuotaExhausted
  /\ synth = << did.id >>
  /\ speechCalls = {}

(* C17: a speak() call with the breaker closed whose normalized text is in *)
(* the cache plays the cached buffer and issues no synthesis request; and  *)
(* every cache entry holds the buffer a synthesis of its key gave.         *)
C17_CachedTextPlaysFromCache ==
  /\ [](\A i \in 1..Len(audioCache) :
          audioCache[i].buf \in 1..nSpeaks /\ ~CacheHas(SubSeq(audioCache, 1, i - 1), audioCache[i].key))
  /\ [][(Stored /\ Len(did'.text) < CacheBelow) =>
          (CacheHas(audioCache', did'.text)
             /\ CacheGet(audioCache', did'.text) = did'.id)]_vars
  /\ [][(Spoke /\ did'.text # <<>> /\ ~isQuotaExhausted
           /\ CacheHas(audioCache, did'.text)) =>
         /\ NoNetworkCall
         /\ speechPlaying' = {[id |-> did'.id, buf |-> CacheGet(audioCache, did'.text)]}
         /\ currentSource' = did'.id
         /\ synth' = <<>>
         /\ timers' = timers /\ onvoiceschanged' = onvoiceschanged]_vars

(* A text synthesized by an earlier call has just been spoken again, and   *)
(* the buffer of that earlier call is playing.                             *)
C17_Witness ==
  /\ did.op = "speak"
  /\ ~isQuotaExhausted
  /\ \E src \in speechPlaying :
       /\ src.id = did.id /\ src.buf < did.id
       /\ CacheHas(audioCache, did.text) /\ CacheGet(audioCache, did.text) = src.buf
  /\ speechCalls = {}

(* The voices that are sounding: the buffers that play, and the utterance  *)
(* the system voice is speaking, if any.                                   *)
ActiveVoices == Cardinality(speechPlaying) + (IF synth # <<>> THEN 1 ELSE 0)

(* C18: at no moment are two voices active, counting the playback of       *)
(* synthesized buffers and the fallback voice.                             *)
C18_OneVoice == ActiveVoices <= 1

(* At most one synthesized buffer plays at any moment. *)
C18_OneBuffer ==
  /\ Cardinality(speechPlaying) <= 1
  /\ \A src \in speechPlaying : src.id = currentSource

(* A synthesis has just failed while the buffer of another call plays: the *)
(* fallback voice speaks over it.                                          *)
C18_Witness ==
  /\ did.op = "catch"
  /\ synth = << did.id >>
  /\ \E src \in speechPlaying : src.id # did.id

(* C19: a speak() call whose text is empty, or empty once normalized,      *)
(* changes nothing: the playing utterance goes on, no voice is started, no *)
(* synthesis request is issued, and the cache and the breaker are left as  *)
(* they were.                                                              *)
C19_EmptyTextIsNoop ==
  /\ [](\A text \in { <<>>, << " " >>, << "*", "[", "x", "]", " " >> } : Normalize(text) = <<>>)
  /\ [][(Spoke /\ did'.text = <<>>) =>
          UNCHANGED << audioCtx, currentSource, audioCache, isQuotaExhausted,
                       speechPlaying, synth, voicesLoaded, onvoiceschanged,
                       timers, speechCalls >>]_vars

(* A text of markup and blanks only has just been spoken while a buffer    *)
(* plays.                                                                  *)
C19_Witness ==
  /\ did.op = "speak"
  /\ did.raw # <<>>
  /\ did.text = <<>>
  /\ speechPlaying # {}

(* C20: every key of the cache is a normalized text shorter than 100       *)
(* characters, and a successful synthesis of a text of 100 characters or   *)
(* more plays its buffer and leaves the cache as it was.                   *)
C20_OnlyShortTextsCached ==
  /\ [](\A key \in CacheKeys(audioCache) :
          Len(key) < CacheBelow /\ Normalize(key) = key)
  /\ [][(Stored /\ Len(did'.text) >= CacheBelow) =>
          /\ audioCache' = audioCache
          /\ speechPlaying' = {[id |-> did'.id, buf |-> did'.id]}
          /\ currentSource' = did'.id]_vars

(* A text of 100 characters has just been synthesized and plays, while the *)
(* cache holds another text.                                               *)
C20_Witness ==
  /\ did.op = "decodeAudioData"
  /\ Len(did.text) = CacheBelow
  /\ \E src \in speechPlaying : src.id = did.id
  /\ audioCache # <<>>
  /\ ~CacheHas(audioCache, did.text)

(***************************************************************************)
(* Properties of the live session's connection and capture                 *)
(***************************************************************************)
(* The step sent captured audio to the live connection. *)
SentAudio == liveDid'.sent # <<>> /\ liveDid' # liveDid

(* C21: captured audio is sent to the live connection only while the       *)
(* session is connected, and the session is connected only while the       *)
(* connection is open: once onclose, onerror or disconnect() has run, no   *)
(* frame is sent, not even one whose callback ran before the teardown.     *)
C21_NoSendAfterTeardown ==
  /\ [](liveIsConnected => socket = "open")
  /\ [][SentAudio => (liveIsConnected /\ liveIsConnected')]_vars

(* disconnect() has just run on a connected session while a captured frame *)
(* waits for the session promise.                                          *)
C21_Witness ==
  /\ liveDid.op = "disconnect"
  /\ liveDid.phase = "connected"
  /\ pendingSends # <<>>
  /\ livePc = "sessionPromise"

(* The step invoked onSilence. *)
SilenceSignal == liveDid'.silence /\ liveDid' # liveDid

(* The step was a capture callback that processed a frame at or below the  *)
(* speaking threshold.                                                     *)
QuietFrame ==
  /\ liveDid'.op = "onaudioprocess" /\ liveDid' # liveDid
  /\ quietSince' = quietSince

(* C22: onSilence is invoked only when it has not been invoked since the   *)
(* connection opened or the last frame above the speaking threshold: two   *)
(* invocations on a connection are separated by a frame with               *)
(* speaking-level volume.                                                  *)
C22_SilenceOneShot ==
  /\ [][SilenceSignal => (~signalled /\ signalled')]_vars
  /\ [][(signalled /\ ~signalled') =>
          \/ (liveDid'.op = "onaudioprocess" /\ quietSince' = liveNow'
                 /\ ~liveDid'.silence)
          \/ (socket = "opening" /\ socket' = "open")]_vars

(* onSilence has been invoked, a speaking-level frame came, and onSilence  *)
(* has just been invoked again.                                            *)
C22_Witness ==
  /\ liveDid.silence
  /\ quietSince > SilenceMs
  /\ liveNow - quietSince > SilenceMs

(* C23: when a frame at or below the speaking threshold is processed more  *)
(* than 3 s after the connection opened or the last speaking-level frame,  *)
(* onSilence has been invoked since, and it is invoked on the first such   *)
(* frame.                                                                  *)
C23_SilenceSignalled ==
  [][(QuietFrame /\ liveNow' - quietSince > SilenceMs) =>
       (signalled' /\ (liveDid'.silence <=> ~signalled))]_vars

(* A frame at the speaking threshold, processed more than 3 s after the    *)
(* last frame above it, has just invoked onSilence, after a silent frame   *)
(* at 3 s exactly that did not.                                            *)
C23_Witness ==
  /\ liveDid.op = "onaudioprocess"
  /\ liveDid.silence
  /\ quietSince > 0
  /\ liveNow - quietSince = SilenceMs + FramePeriodMs
  /\ nLiveFrames >= 3

(* A session after teardown: not connected, and nothing held. *)
LiveTorn ==
  /\ ~liveIsConnected /\ ~session
  /\ ~liveMediaStream /\ ~liveInputProcessor
  /\ ~liveAudioContext /\ ~outputAudioContext
  /\ sources = {} /\ nextStartTime = 0

G3Torn ==
  /\ ~isConnected /\ buffer = <<>>
  /\ ~mediaStream /\ ~inputProcessor /\ audioContext = 0

(* The fields of the two sessions. *)
LiveFields ==
  << liveIsConnected, liveAudioContext, outputAudioContext, liveMediaStream,
     liveInputProcessor, session, nextStartTime, sources, lastSpeechTime,
     silenceTriggered >>

G3Fields ==
  << isConnected, buffer, bufferLength, isProcessing, audioContext, mediaStream,
     inputProcessor >>

(* C24: disconnect() can be called in every phase of either session, it    *)
(* leaves the session torn down, and called on a session that is torn down *)
(* it changes no field.                                                    *)
C24_TeardownIdempotent ==
  /\ [][liveDid'.op = "disconnect" => LiveTorn']_vars
  /\ [][(LiveTorn /\ liveDid'.op = "disconnect") => UNCHANGED LiveFields]_vars
  /\ [][Disconnect => G3Torn']_vars
  /\ [][(G3Torn /\ Disconnect) => UNCHANGED G3Fields]_vars

(* disconnect() has just been called on a live session that was closed,   *)
(* and left it torn down.                                                  *)
C24_Witness ==
  /\ liveDid.op = "disconnect"
  /\ liveDid.phase = "closed"
  /\ LiveTorn
  /\ nChunks > 0

(* disconnect() has run since the last connect(), and every asynchronous   *)
(* step of that connect() has settled.                                     *)
LiveTornAndSettled ==
  /\ nLiveConnects > 0
  /\ ~liveAudioContext
  /\ livePc = "idle"
  /\ socket \notin {"opening", "failing"}
  /\ decoding = {}

G3TornAndSettled ==
  /\ nConnects > 0
  /\ audioContext = 0
  /\ pc = "idle"

(* C25: once disconnect() has run on a session and the steps of connect()  *)
(* have settled, the session holds no microphone stream, no input          *)
(* processor, no audio context and no scheduled source.                    *)
C25_DeviceReleased ==
  /\ LiveTornAndSettled =>
       /\ ~liveMediaStream /\ ~liveInputProcessor
       /\ ~outputAudioContext /\ sources = {}
  /\ G3TornAndSettled => (~mediaStream /\ ~inputProcessor)

(* The segmenter's half of C25. *)
C25_SegmenterReleased ==
  G3TornAndSettled => (~mediaStream /\ ~inputProcessor)

(* A live session torn down while connect() awaited the microphone: all    *)
(* has settled, the connection is open and the microphone stream is held.  *)
C25_Witness ==
  /\ LiveTornAndSettled
  /\ liveMediaStream
  /\ liveIsConnected
  /\ session

(* disconnect() has run since the last connect(): called by the owner, or  *)
(* by the handling of a transport error.  connect() creates the input      *)
(* context and only disconnect() drops it.                                 *)
LiveClosed == nLiveConnects > 0 /\ ~liveAudioContext

(* C26: a live session closed by disconnect() or by a transport error is   *)
(* not connected, whatever callbacks and continuations of the connect()    *)
(* in progress run afterwards, until connect() is called again.            *)
C26_ClosedIsTerminal == LiveClosed => ~liveIsConnected

(* disconnect() was called while the connection was opening, after the     *)
(* microphone was acquired; the connection then opened and the closed      *)
(* session is connected.                                                   *)
C26_Witness ==
  /\ LiveClosed
  /\ liveIsConnected
  /\ ~liveMediaStream
  /\ socket = "open"

(* C27: the error callback of a live session is invoked at most once for   *)
(* each connect(), however the transport reports its error.                *)
C27_ErrorReportedOnce == liveOnError <= nLiveConnects

(* The other half of C27: the handling of an error leaves the session torn *)
(* down, and no step but connect() starts a connection.                    *)
C27_ErrorTearsDown ==
  /\ [][liveOnError' > liveOnError => LiveTorn']_vars
  /\ [][nLiveConnects' > nLiveConnects => livePc = "idle"]_vars
  /\ [][(socket' = "opening" /\ socket # "opening") => livePc = "getUserMedia"]_vars

(* An error reported by onerror while the connection was opening and again *)
(* by the rejection of the session promise: the callback was invoked       *)
(* twice, and the session is torn down.                                    *)
C27_Witness ==
  /\ liveOnError = 2
  /\ nLiveConnects = 1
  /\ livePc = "idle"
  /\ socket = "closed"
  /\ LiveTorn

(* C28: when the microphone is refused during connect(), the catch block   *)
(* of connect() invokes the error callback once and leaves the session     *)
(* torn down; no connection was started, and nothing reports again until   *)
(* connect() is called again.                                              *)
C28_DeviceErrorFatalOnce ==
  /\ [][(livePc = "getUserMedia" /\ livePc' = "idle") =>
          (liveOnError' = liveOnError + 1 /\ LiveTorn' /\ socket' = socket)]_vars
  /\ [][(livePc = "idle" /\ socket = "none" /\ nLiveConnects' = nLiveConnects) =>
          liveOnError' = liveOnError]_vars
  /\ [][(pc = "getUserMedia" /\ pc' = "idle" /\ ~mediaStream') =>
          (nOnError' = nOnError + 1 /\ G3Torn')]_vars
  /\ [][(pc = "idle" /\ nConnects' = nConnects) => nOnError' = nOnError]_vars

(* The microphone was refused to a live session: one report, and the       *)
(* session torn down without a connection ever started.                    *)
C28_Witness ==
  /\ nLiveConnects = 1
  /\ liveOnError = 1
  /\ livePc = "idle"
  /\ socket = "none"
  /\ LiveTorn

(* The step just taken was a failed decode of an inbound chunk. *)
DecodeFailed == liveDid'.op = "decodeFailed" /\ liveDid' # liveDid

(* C29: a failed decode changes neither the scheduling clock nor the       *)
(* scheduled sources, nor the connected flag, nor the count of error       *)
(* reports; and a buffer scheduled while earlier ones stand starts at the  *)
(* larger of the output clock and the end of the last one scheduled,       *)
(* whatever failed in between.                                             *)
C29_DecodeFailureDropsChunk ==
  /\ [][DecodeFailed =>
          /\ nextStartTime' = nextStartTime
          /\ sources' = sources
          /\ slots' = slots
          /\ liveIsConnected' = liveIsConnected
          /\ liveOnError' = liveOnError
          /\ socket' = socket]_vars
  /\ [][(slots # <<>> /\ Len(slots') = Len(slots) + 1) =>
          slots'[Len(slots')].start = Max(currentTime, slots[Len(slots)].end)]_vars

(* The second chunk has just failed to decode on a connected session while *)
(* the buffer of the first is scheduled: the clock is that buffer's end.   *)
C29_Witness ==
  /\ liveDid.op = "decodeFailed"
  /\ liveDid.frame = 2
  /\ liveIsConnected
  /\ liveOnError = 0
  /\ Len(slots) = 1
  /\ sources # {}
  /\ nextStartTime = slots[1].end
  /\ nextStartTime > 0

(***************************************************************************)
(* Properties of the resampler                                             *)
(***************************************************************************)
(* The frames the step just taken sent were resampled exactly when the     *)
(* rate the callback read was not the requested one.                       *)
SentAsCaptured ==
  \A i \in 1..Len(liveDid'.sent) :
    /\ liveDid'.sent[i].resampled <=> liveDid'.sent[i].rate # RequestedRate
    /\ liveDid'.sent[i].rate \in DeviceRates

(* C30: the resampler gives a value for every input: at equal rates the    *)
(* input itself, for an empty input an empty output, else as many samples  *)
(* as the input lasts at the target rate, none outside the input's range;  *)
(* and the capture path of a live session sends a frame as captured        *)
(* exactly when the device's rate is 16000.                                *)
C30_ResampleIdentity ==
  /\ []((audio.applied /\ audio.rin = audio.rout) => audio.y = audio.x)
  /\ []((audio.applied /\ audio.x = <<>>) => audio.y = <<>>)
  /\ [](audio.applied =>
          /\ Len(audio.y) = ResampledLen(Len(audio.x), audio.rin, audio.rout)
          /\ Elems(audio.y) \subseteq (0 - 2)..3)
  /\ [][SentAudio => SentAsCaptured]_vars
  /\ [][(SentAudio /\ liveDid'.op = "onaudioprocess") =>
          liveDid'.sent[1].rate = liveRate]_vars

(* The resampler was given three different samples and the same rate       *)
(* twice, and gave them back.                                              *)
C30_Witness ==
  /\ audio.applied
  /\ audio.rin = audio.rout
  /\ Len(audio.x) = 3
  /\ Cardinality(Elems(audio.x)) = 3
  /\ audio.y = audio.x

(***************************************************************************)
(* Properties of the encoder and the framer                                *)
(***************************************************************************)
(* Decode: the encoded value v against the sample s it stands for, within  *)
(* 1/32768: | s / Unit - v / FullScale | <= 1 / 32768, cross-multiplied.   *)
Abs(n) == IF n < 0 THEN 0 - n ELSE n
DecodesWithin(v, s) == Abs(s * FullScale - v * Unit) * 32768 <= Unit * FullScale

U16At(b, o) == b[o + 1] + 256 * b[o + 2]
U32At(b, o) == U16At(b, o) + 65536 * U16At(b, o + 2)
S16At(b, o) == IF U16At(b, o) >= 32768 THEN U16At(b, o) - 65536 ELSE U16At(b, o)

ReadWav(b) ==
  [riff |-> SubSeq(b, 1, 4), riffSize |-> U32At(b, 4), wave |-> SubSeq(b, 9, 12),
   fmt |-> SubSeq(b, 13, 16), fmtSize |-> U32At(b, 16), format |-> U16At(b, 20),
   channels |-> U16At(b, 22), sampleRate |-> U32At(b, 24),
   byteRate |-> U32At(b, 28), blockAlign |-> U16At(b, 32),
   bitsPerSample |-> U16At(b, 34), data |-> SubSeq(b, 37, 40),
   dataLength |-> U32At(b, 40),
   payload |-> SubSeq(b, 45, 44 + U32At(b, 40))]

(* The samples of a payload of 16-bit integers. *)
ReadSamples(payload) ==
  [i \in 1..(Len(payload) \div 2) |-> S16At(payload, 2 * (i - 1))]

(* C32: the bytes of a framed segment are 44 bytes of header and the PCM   *)
(* payload; a reader finds PCM at 16000 Hz, one channel, 16 bits, a data   *)
(* length equal to the payload's, the payload up to the end of the file,   *)
(* and in it the encoded samples.                                          *)
C32_WavRoundTrip ==
  audio.stage = "framed" =>
    LET wav == ReadWav(audio.wire)
    IN  /\ Len(audio.wire) = 44 + 2 * Len(audio.pcm)
        /\ \A i \in 1..Len(audio.wire) : audio.wire[i] \in 0..255
        /\ wav.riff = << 82, 73, 70, 70 >> /\ wav.wave = << 87, 65, 86, 69 >>
        /\ wav.fmt = << 102, 109, 116, 32 >> /\ wav.data = << 100, 97, 116, 97 >>
        /\ wav.riffSize = Len(audio.wire) - 8
        /\ wav.fmtSize = 16 /\ wav.format = 1
        /\ wav.sampleRate = 16000 /\ wav.channels = 1 /\ wav.bitsPerSample = 16
        /\ wav.byteRate = 32000 /\ wav.blockAlign = 2
        /\ wav.dataLength = 2 * Len(audio.pcm)
        /\ wav.payload = SubSeq(audio.wire, 45, Len(audio.wire))
        /\ ReadSamples(wav.payload) = audio.pcm

(* A segment of three samples, one of them negative, was framed. *)
C32_Witness ==
  /\ audio.stage = "framed"
  /\ audio.pcm = << 0 - 33, 32767, 0 >>
  /\ Len(audio.wire) = 50
  /\ SubSeq(audio.wire, 41, 50) = << 6, 0, 0, 0, 223, 255, 255, 127, 0, 0 >>

(***************************************************************************)
(* Further properties of the capture segmenter                             *)
(***************************************************************************)
(* C33: the bufferLength counter is the number of samples of the frames    *)
(* held in the pending buffer.                                             *)
C33_LengthMatchesBuffer == bufferLength = SamplesOf(buffer)

(* C33 witness: on a session connected for the second time, the counter    *)
(* exceeds the samples of the frames pending.                              *)
C33_Witness ==
  /\ nConnects = 2
  /\ isConnected
  /\ buffer # <<>>
  /\ bufferLength > SamplesOf(buffer)

(* C34: no step taken while the session is disconnected invokes            *)
(* onTranscript.                                                           *)
C34_NoTranscriptAfterDisconnect ==
  [][~isConnected => transcripts' = transcripts]_vars

(* C34 witness: disconnect() was called with a segment in flight and no    *)
(* transcript delivered yet; the response is still to come.                *)
C34_Witness ==
  /\ nConnects = 1
  /\ ~isConnected
  /\ pc = "idle"
  /\ inflight # <<>>
  /\ transcripts = {}

(* The frames of the segments dispatched so far. *)
DispatchedFrames == Elems(Flatten(dispatched))

(* C35: on a session that stays connected, with frames arriving and calls  *)
(* settling, the in-flight marker is always released again, a pending      *)
(* buffer is always dispatched, and every frame delivered is pending or    *)
(* dispatched.                                                             *)
C35_EveryFrameDispatched ==
  /\ isProcessing ~> ~isProcessing
  /\ (buffer # <<>>) ~> (buffer = <<>>)
  /\ [](Elems(delivered) = Elems(buffer) \cup DispatchedFrames)
  /\ [][buffer' = <<>> => Elems(buffer) \subseteq DispatchedFrames']_vars

(* C35 witness: the forced flush waited behind a call in flight until the  *)
(* call settled, and the frames that had piled up were dispatched whole.   *)
C35_Witness ==
  /\ Len(dispatched) = 2
  /\ Len(dispatched[2]) = MaxPending + 1
  /\ buffer = <<>>
  /\ Elems(delivered) = DispatchedFrames

(***************************************************************************)
(* Further properties of the playback scheduler                            *)
(***************************************************************************)
(* C36: no buffer scheduled since the last interruption belongs to a chunk *)
(* received before it or with it.                                          *)
C36_NoPlayAfterInterruption ==
  \A i \in 1..Len(slots) : slots[i].id > barge

(* C36 witness: on an open session, the buffer of a chunk received before  *)
(* the last interruption is scheduled and has not ended.                   *)
C36_Witness ==
  /\ socket = "open"
  /\ \E src \in sources : src.id <= barge /\ src.end > currentTime

(***************************************************************************)
(* Properties of the speech service's calls                                *)
(***************************************************************************)
(* The text of the speak() call just made is shorter than the              *)
(* short-utterance threshold and not empty.                                *)
SpokeShort == Spoke /\ did'.text # <<>> /\ Len(did'.text) < ShortBelow

VoiceStarted ==
  \/ ~(speechPlaying' \subseteq speechPlaying)
  \/ (synth' # <<>> /\ (IF synth = <<>> THEN TRUE ELSE Head(synth') # Head(synth)))

(* The step that follows a stopSpeech() call starts no voice unless it is  *)
(* a speak() call.                                                         *)
C38_QuietAfterStop == [][(did.op = "stopSpeech" /\ ~Spoke) => ~VoiceStarted]_vars

(* A buffer is started only for the latest speak() call. *)
C38_LatestCallOnly ==
  [][\A src \in speechPlaying' \ speechPlaying : src.id = nSpeaks']_vars

(* C38: after stopSpeech() returns no voice starts until speak() is called *)
(* again, and a speak() call that was awaiting synthesis or decoding when  *)
(* stopSpeech() or a newer speak() call ran does not start its playback    *)
(* afterwards: the step after a stopSpeech() call starts no voice unless   *)
(* it is a speak() call, and no buffer is started for a call that is not   *)
(* the latest.                                                             *)
C38_NoPlayAfterStop == C38_QuietAfterStop /\ C38_LatestCallOnly

(* The buffer of a call plays, started when its decoding resolved, though  *)
(* a newer speak() call has been made since.                               *)
C38_Witness ==
  /\ did.op = "decodeAudioData"
  /\ did.id < nSpeaks
  /\ \E src \in speechPlaying : src.id = did.id

(* C39: a store removes a text from the cache only when the stored text is *)
(* not in the cache and the cache holds 20 entries; a store of a text that *)
(* is in the cache replaces its entry and removes no other text.           *)
C39_EvictsOnlyWhenFull ==
  [][Stored =>
       \/ CacheKeys(audioCache) \subseteq CacheKeys(audioCache')
       \/ (~CacheHas(audioCache, did'.text) /\ Len(audioCache) = MAX_CACHE_SIZE)]_vars

(* Two overlapping calls for the same text have both stored it with the    *)
(* cache at capacity: the cache holds the text and one entry fewer than    *)
(* its capacity.                                                           *)
C39_Witness ==
  /\ did.op = "decodeAudioData"
  /\ script.repeats = 1
  /\ CacheHas(audioCache, did.text)
  /\ CacheGet(audioCache, did.text) = did.id
  /\ Len(audioCache) = MAX_CACHE_SIZE - 1

(* The step started a buffer for the call it belongs to, and gave the      *)
(* fallback voice nothing.                                                 *)
OnlyBufferStarted ==
  /\ \E src \in speechPlaying' \ speechPlaying : src.id = did'.id
  /\ synth' = <<>>
  /\ timers' = timers /\ onvoiceschanged' = onvoiceschanged

(* The step used the fallback voice for the call it belongs to, and        *)
(* started no buffer.                                                      *)
OnlyFallbackUsed == UsesFallback /\ NoBufferStarted

(* The call of the speak() step just taken awaits its synthesis. *)
Awaits == \E c \in speechCalls' : c.id = did'.id

(* On every path of speak() exactly one of playBuffer and fallbackSpeak is *)
(* called: at the call itself unless it goes on to await a synthesis, when *)
(* the decoding resolves, or in the catch block.                           *)
C40_OneVoicePerPath ==
  /\ [][(Spoke /\ did'.text # <<>> /\ ~Awaits) =>
          (OnlyBufferStarted \/ OnlyFallbackUsed)]_vars
  /\ [][(Spoke /\ did'.text # <<>> /\ Awaits) =>
          (NoBufferStarted /\ synth' = <<>> /\ timers' = timers)]_vars
  /\ [][Stored => OnlyBufferStarted]_vars
  /\ [][Failed => OnlyFallbackUsed]_vars

(* An utterance of the fallback voice that has ended is not spoken again. *)
C40_NotVoicedAgain ==
  [][did.op = "utteranceEnded" =>
       (synth' = <<>> \/ Head(synth') # did.id)]_vars

(* C40: every speak() call with a text that is not empty once normalized   *)
(* and that runs to completion voices its utterance exactly once: each     *)
(* path starts one buffer or one utterance of the fallback voice, never    *)
(* both and never neither, and the utterance is not voiced a second time.  *)
C40_VoicedExactlyOnce == C40_OneVoicePerPath /\ C40_NotVoicedAgain

(* The 300 ms timeout has just given the fallback voice the utterance of a *)
(* call, after the voices were loaded and the voice queue ran empty.       *)
C40_Witness ==
  /\ did.op = "timeout"
  /\ synth = << did.id >>
  /\ voicesLoaded
  /\ onvoiceschanged = 0

====
